---- MODULE Spec2Model ----
(***************************************************************************)
(* Relay coordination plane: the lock registry (lib/locks), the            *)
(* post_status and check_status route handlers, and the clock.             *)
(*                                                                         *)
(* The KV hash locks:<repo>:<branch> is modelled as a set of lock records  *)
(* (field = file_path); HSet/HDel are the hash primitives.                 *)
(***************************************************************************)
EXTENDS Integers, Sequences, FiniteSets, TLC

VARIABLES
    now,        \* wall clock in ms (Date.now())
    ticks,      \* number of clock advances taken so far (bounds the run)
    locks,      \* [Namespaces -> hash], the KV lock hashes
    graph,      \* [Namespaces -> cached graph], the key graph:<repo>:<branch>
    repoHead,   \* [Namespaces -> commit], what getRepoHeadCached answers
    last,       \* the request handled by the latest step and its response
    inflight,   \* requests received whose handler has not reached the store yet
    activity,   \* [Namespaces -> list], the KV lists activity:<repo>:<branch>, newest first
    published,  \* [Namespaces -> list], every event pushed since the key was last deleted
    graphMeta,  \* [Namespaces -> commit], the keys graph:meta:<repo>:<branch>
    fileShas    \* [Namespaces -> path -> sha], the hashes graph:file_shas:<repo>:<branch>

vars == <<now, ticks, locks, graph, repoHead, last, inflight, activity,
          published, graphMeta, fileShas>>

----------------------------------------------------------------------------
(* Program constants *)

LOCK_TTL_MS == 300000

RequestDeadlineMs == 5000

(* Bounds of the model *)

MaxTicks == 2

MaxFilePaths == 2

----------------------------------------------------------------------------
(* Value universes *)

None == "none"

Namespaces == {"main"}

LockPaths == {"a.ts", "b.ts"}

Paths == LockPaths \cup {"c.ts"}

Commits == {"c1", "c2"}

Messages == {"work"}

\* The request's identity headers: x-github-user, x-github-username.
HeaderCombos ==
    { [user |-> None, username |-> None],
      [user |-> "u1", username |-> None],
      [user |-> None, username |-> "u1"],
      [user |-> "u2", username |-> "U2 Name"] }

\* The identity headers of the requests of the registry's state machine: one
\* combination per resolved identity.
PostHeaderCombos == { h \in HeaderCombos : h.user # None \/ h.username = None }

RECURSIVE SeqsOver(_, _)
SeqsOver(S, n) ==
    IF n = 0 THEN {<<>>}
    ELSE LET shorter == SeqsOver(S, n - 1)
         IN  shorter \cup
             { Append(s, x) : s \in { q \in shorter : Len(q) = n - 1 }, x \in S }

Range(s) == { s[i] : i \in DOMAIN s }

IsDistinct(s) == \A i, j \in DOMAIN s : i # j => s[i] # s[j]

\* file_paths as normalizeFilePaths returns them: no repeated path.
FilePathSeqs(S) == { s \in SeqsOver(S, MaxFilePaths) : IsDistinct(s) }

----------------------------------------------------------------------------
(* Clock & identity *)

\* An identity that ignores the headers.
PostUserIdAnonymous(h) == "anonymous"

\* request.headers.get('x-github-user') || get('x-github-username') || 'anonymous'
PostUserId(h) ==
    IF h.user # None THEN h.user
    ELSE IF h.username # None THEN h.username
    ELSE "anonymous"

\* request.headers.get('x-github-username') || get('x-github-user') || 'Anonymous'
PostUserName(h) ==
    IF h.username # None THEN h.username
    ELSE IF h.user # None THEN h.user
    ELSE "Anonymous"

----------------------------------------------------------------------------
(* KV hash primitives over a set of records keyed by file_path *)

HExists(h, f) == \E r \in h : r.file_path = f

HGet(h, f) == CHOOSE r \in h : r.file_path = f

\* A store that appends the value instead of replacing the field.
HSetAppend(h, f, v) == h \cup {v}

HSet(h, f, v) == { r \in h : r.file_path # f } \cup {v}

HDel(h, f) == { r \in h : r.file_path # f }

----------------------------------------------------------------------------
(* Lock registry *)

\* A lock still counted as active at the instant of its expiry.
IsActiveInclusive(r, t) == t <= r.expiry

IsActive(r, t) == t < r.expiry

\* A record whose expiry is one TTL late.
LockRecordLate(f, in, t) ==
    [ file_path  |-> f,
      user_id    |-> in.userId,
      user_name  |-> in.userName,
      status     |-> in.status,
      agent_head |-> in.agentHead,
      message    |-> in.message,
      timestamp  |-> t,
      expiry     |-> t + LOCK_TTL_MS + LOCK_TTL_MS ]

LockRecord(f, in, t) ==
    [ file_path  |-> f,
      user_id    |-> in.userId,
      user_name  |-> in.userName,
      status     |-> in.status,
      agent_head |-> in.agentHead,
      message    |-> in.message,
      timestamp  |-> t,
      expiry     |-> t + LOCK_TTL_MS ]

\* A path blocks the caller when its field holds an active lock of another user.
Blocks(h, f, userId, t) ==
    /\ HExists(h, f)
    /\ IsActive(HGet(h, f), t)
    /\ HGet(h, f).user_id # userId

\* A write that stops after the first requested path.
WriteLocksFirstOnly(h, paths, in, t) ==
    IF paths = <<>> THEN h
    ELSE HSet(h, Head(paths), LockRecord(Head(paths), in, t))

\* A write that leaves a record the caller already holds as it is.
RECURSIVE WriteLocksKeepOwn(_, _, _, _)
WriteLocksKeepOwn(h, paths, in, t) ==
    IF paths = <<>> THEN h
    ELSE LET f == Head(paths)
         IN  WriteLocksKeepOwn(IF HExists(h, f) /\ HGet(h, f).user_id = in.userId
                               THEN h ELSE HSet(h, f, LockRecord(f, in, t)),
                               Tail(paths), in, t)

RECURSIVE WriteLocks(_, _, _, _)
WriteLocks(h, paths, in, t) ==
    IF paths = <<>> THEN h
    ELSE WriteLocks(HSet(h, Head(paths), LockRecord(Head(paths), in, t)),
                    Tail(paths), in, t)

\* acquire: one atomic script over the namespace hash.
acquireLocks(h, in, t) ==
    LET blocked == { i \in DOMAIN in.filePaths : Blocks(h, in.filePaths[i], in.userId, t) }
    IN  IF blocked # {}
        THEN LET i == CHOOSE k \in blocked : \A m \in blocked : k <= m
             IN  [ success         |-> FALSE,
                   reason          |-> "FILE_CONFLICT",
                   conflictingFile |-> in.filePaths[i],
                   conflictingUser |-> HGet(h, in.filePaths[i]).user_id,
                   locks           |-> {},
                   store           |-> h ]
        ELSE [ success         |-> TRUE,
               reason          |-> None,
               conflictingFile |-> None,
               conflictingUser |-> None,
               locks           |-> { LockRecord(f, in, t) : f \in Range(in.filePaths) },
               store           |-> WriteLocks(h, in.filePaths, in, t) ]

\* An acquire that fails for a reason other than a conflict: the result
\* names no file and no user, and no lock is written.
acquireLocksFailed(h) ==
    [ success         |-> FALSE,
      reason          |-> "INTERNAL_ERROR",
      conflictingFile |-> None,
      conflictingUser |-> None,
      locks           |-> {},
      store           |-> h ]

RECURSIVE DeleteOwned(_, _, _)
DeleteOwned(h, paths, userId) ==
    IF paths = <<>> THEN h
    ELSE LET f == Head(paths)
         IN  DeleteOwned(IF HExists(h, f) /\ HGet(h, f).user_id = userId
                         THEN HDel(h, f) ELSE h,
                         Tail(paths), userId)

\* A release that could not run its script: it reports success = false and
\* leaves the hash as it was.
releaseLocksFailed(h) == [ success |-> FALSE, store |-> h ]

\* release: one atomic script deleting only the requested fields whose stored
\* user_id is the caller; other fields are silently ignored.
releaseLocks(h, filePaths, userId) ==
    [ success |-> TRUE, store |-> DeleteOwned(h, filePaths, userId) ]

\* releaseAll: clears the namespace key, returning the prior cardinality.
releaseAllLocks(h) ==
    [ success |-> TRUE, released |-> Cardinality(h), store |-> {} ]

\* list: the active locks of the namespace.
getLocks(h, t) == { r \in h : IsActive(r, t) }

\* A cleanup that compares the clock with the record's timestamp instead of
\* its expiry.
cleanupExpiredLocksByTimestamp(h, t) ==
    [ removed |-> Cardinality({ r \in h : t > r.timestamp }),
      store   |-> { r \in h : ~(t > r.timestamp) } ]

\* cleanupExpired: removes the expired fields, returning how many.
cleanupExpiredLocks(h, t) ==
    [ removed |-> Cardinality({ r \in h : ~IsActive(r, t) }),
      store   |-> { r \in h : IsActive(r, t) } ]

----------------------------------------------------------------------------
(* Graph cache read path *)

NoGraph == [present |-> FALSE, edges |-> <<>>]

\* GraphService.getCached: the stored graph, or null when the key is absent.
getCached(g) == g

----------------------------------------------------------------------------
(* POST /api/post_status *)

Statuses == {"OPEN", "READING", "WRITING"}

\* A response: the HTTP status, the body's success / status fields, the
\* orchestration (action; reason with the file, user and lock type it cites),
\* and the locks, orphaned dependencies and activity events the body carries.
Response(http, success, action, reason, file, user) ==
    [ http |-> http, success |-> success, status |-> None,
      action |-> action, reason |-> reason, file |-> file, user |-> user,
      lockType |-> None, locks |-> {}, enriched |-> <<>>, orphaned |-> {},
      command |-> None, events |-> <<>>,
      details |-> [locks_cleared |-> FALSE, feed_cleared |-> FALSE] ]

\* A release keyed by the display name instead of the user id.
postStatusReleaseByName(h, filePaths, userId, userName) ==
    releaseLocks(h, filePaths, userName)

\* The OPEN branch's release call.
postStatusRelease(h, filePaths, userId, userName) ==
    releaseLocks(h, filePaths, userId)

\* The targets of cached edges out of a released path.
orphanedDependenciesTargets(cached, filePaths) ==
    IF cached.present
    THEN { cached.edges[i].target : i \in
             { k \in DOMAIN cached.edges :
                 /\ cached.edges[k].source \in Range(filePaths)
                 /\ cached.edges[k].target \notin Range(filePaths) } }
    ELSE {}

\* orphaned_dependencies: sources of cached edges into a released path that
\* are not themselves released.
orphanedDependencies(cached, filePaths) ==
    IF cached.present
    THEN { cached.edges[i].source : i \in
             { k \in DOMAIN cached.edges :
                 /\ cached.edges[k].target \in Range(filePaths)
                 /\ cached.edges[k].source \notin Range(filePaths) } }
    ELSE {}

\* A push-needed test that never asks for a push.
postStatusPushNeverNeeded(agentHead, newRepoHead) == FALSE

\* isNonEmptyString(newRepoHead) && isNonEmptyString(agentHead) &&
\* newRepoHead === agentHead
postStatusPushNeeded(agentHead, newRepoHead) ==
    /\ newRepoHead # None
    /\ agentHead # None
    /\ newRepoHead = agentHead

\* A head comparison that never finds the caller behind.
postStatusNeverStale(agentHead, head) == FALSE

\* agentHead !== repoHead
postStatusIsStale(agentHead, head) == agentHead # head

\* A template literal renders a field the result does not carry as the
\* text "undefined".
Interpolate(v) == IF v = None THEN "undefined" ELSE v

\* A failed acquire answered as an HTTP error.
postStatusConflictAsError(lockResult) ==
    Response(409, FALSE, "SWITCH_TASK", lockResult.reason,
             lockResult.conflictingFile, lockResult.conflictingUser)

\* An answer with the file and the user interchanged.
postStatusConflictSwapped(lockResult) ==
    Response(200, FALSE, "SWITCH_TASK", lockResult.reason,
             lockResult.conflictingUser, lockResult.conflictingFile)

\* The SWITCH_TASK answer to a failed acquire:
\* `${reason}: ${conflictingFile} locked by ${conflictingUser}`.
postStatusConflict(lockResult) ==
    Response(200, FALSE, "SWITCH_TASK", lockResult.reason,
             Interpolate(lockResult.conflictingFile),
             Interpolate(lockResult.conflictingUser))

\* The whole handler: the response and the namespace hash it leaves.
\* scriptOk tells whether the KV store lets the registry script run.
postStatus(h, cached, head, req, t, scriptOk) ==
    LET userId   == PostUserId(req.headers)
        userName == PostUserName(req.headers)
        resp(http, success, action) ==
            Response(http, success, action, None, None, None)
    IN  IF req.filePaths = <<>> \/ req.status \notin Statuses
        THEN [ resp |-> resp(400, FALSE, None), store |-> h ]
        ELSE IF req.status = "OPEN"
        THEN IF postStatusPushNeeded(req.agentHead, req.newRepoHead)
             THEN [ resp  |-> [ resp(400, FALSE, "PUSH") EXCEPT !.command = "git push" ],
                    store |-> h ]
             ELSE LET released == IF scriptOk
                                  THEN postStatusRelease(h, req.filePaths, userId, userName)
                                  ELSE releaseLocksFailed(h)
                  IN  \* `await releaseLocks(...)`: the result is not looked at.
                      [ resp  |-> [ resp(200, TRUE, "PROCEED") EXCEPT
                                      !.orphaned = orphanedDependencies(cached, req.filePaths) ],
                        store |-> released.store ]
        ELSE IF req.status = "WRITING"
        THEN IF req.agentHead = None
             THEN [ resp |-> resp(400, FALSE, None), store |-> h ]
             ELSE IF postStatusIsStale(req.agentHead, head)
             THEN [ resp  |-> [ resp(200, FALSE, "PULL") EXCEPT
                                  !.command = "git pull --rebase" ],
                    store |-> h ]
             ELSE LET lockResult ==
                          IF scriptOk
                          THEN acquireLocks(h,
                                            [ filePaths |-> req.filePaths,
                                              userId    |-> userId,
                                              userName  |-> userName,
                                              status    |-> req.status,
                                              message   |-> req.message,
                                              agentHead |-> req.agentHead ],
                                            t)
                          ELSE acquireLocksFailed(h)
                  IN  IF ~lockResult.success
                      THEN [ resp |-> postStatusConflict(lockResult), store |-> lockResult.store ]
                      ELSE [ resp  |-> [ resp(200, TRUE, "PROCEED") EXCEPT
                                           !.locks = lockResult.locks ],
                             store |-> lockResult.store ]
        ELSE [ resp |-> resp(200, TRUE, "PROCEED"), store |-> h ]

----------------------------------------------------------------------------
(* POST /api/check_status *)

\* request.headers.get('x-github-user') || get('x-github-username') || ''
CheckRequestingUser(h) ==
    IF h.user # None THEN h.user
    ELSE IF h.username # None THEN h.username
    ELSE ""

\* { ...lock, user: lock.user_id, lock_type }
Enrich(lock, lockType) ==
    [ file_path  |-> lock.file_path,
      user_id    |-> lock.user_id,
      user_name  |-> lock.user_name,
      status     |-> lock.status,
      agent_head |-> lock.agent_head,
      message    |-> lock.message,
      timestamp  |-> lock.timestamp,
      expiry     |-> lock.expiry,
      user       |-> lock.user_id,
      lock_type  |-> lockType ]

\* The loop over filePaths: the locks on requested paths, in request order.
RECURSIVE DirectLocks(_, _)
DirectLocks(allLocks, filePaths) ==
    IF filePaths = <<>> THEN <<>>
    ELSE LET f    == Head(filePaths)
             rest == DirectLocks(allLocks, Tail(filePaths))
         IN  IF HExists(allLocks, f)
             THEN <<Enrich(HGet(allLocks, f), "DIRECT")>> \o rest
             ELSE rest

AddOnce(seq, x) == IF x \in Range(seq) THEN seq ELSE Append(seq, x)

\* Neighbors found along outgoing edges of requested paths only.
RECURSIVE NeighborPathsOutOnly(_, _, _)
NeighborPathsOutOnly(edges, requested, acc) ==
    IF edges = <<>> THEN acc
    ELSE LET e == Head(edges)
         IN  NeighborPathsOutOnly(Tail(edges), requested,
                 IF e.source \in requested /\ e.target \notin requested
                 THEN AddOnce(acc, e.target) ELSE acc)

\* The loop over cachedGraph.edges: the non-requested endpoints of edges that
\* touch a requested path, in order of first insertion into the Set.
RECURSIVE NeighborPaths(_, _, _)
NeighborPaths(edges, requested, acc) ==
    IF edges = <<>> THEN acc
    ELSE LET e  == Head(edges)
             a1 == IF e.source \in requested /\ e.target \notin requested
                   THEN AddOnce(acc, e.target) ELSE acc
             a2 == IF e.target \in requested /\ e.source \notin requested
                   THEN AddOnce(a1, e.source) ELSE a1
         IN  NeighborPaths(Tail(edges), requested, a2)

\* The loop over neighborPaths: the locks on neighbor paths not yet enriched.
RECURSIVE NeighborLocks(_, _, _)
NeighborLocks(allLocks, neighborPaths, enriched) ==
    IF neighborPaths = <<>> THEN enriched
    ELSE LET p == Head(neighborPaths)
         IN  NeighborLocks(allLocks, Tail(neighborPaths),
                 IF \/ ~HExists(allLocks, p)
                    \/ \E i \in DOMAIN enriched : enriched[i].file_path = p
                 THEN enriched
                 ELSE Append(enriched, Enrich(HGet(allLocks, p), "NEIGHBOR")))

\* enrichedLocks, in the insertion order Object.entries walks.
EnrichedLocks(allLocks, cached, filePaths) ==
    LET direct == DirectLocks(allLocks, filePaths)
    IN  IF cached.present
        THEN NeighborLocks(allLocks,
                           NeighborPaths(cached.edges, Range(filePaths), <<>>),
                           direct)
        ELSE direct

RECURSIVE Filter(_, _)
Filter(seq, user) ==
    IF seq = <<>> THEN <<>>
    ELSE IF Head(seq).user_id # user
         THEN <<Head(seq)>> \o Filter(Tail(seq), user)
         ELSE Filter(Tail(seq), user)

\* let status = 'OK'; if (isStale) status = 'STALE';
\* if (conflictingLocks.length > 0) status = 'CONFLICT';
checkStatusField(isStale, conflicts) ==
    LET s0 == "OK"
        s1 == IF isStale THEN "STALE" ELSE s0
    IN  IF conflicts > 0 THEN "CONFLICT" ELSE s1

\* The whole handler; it writes nothing.
checkStatus(h, cached, head, req, t) ==
    IF req.agentHead = None \/ req.filePaths = <<>>
    THEN Response(400, FALSE, None, None, None, None)
    ELSE LET requestingUser == CheckRequestingUser(req.headers)
             isStale  == req.agentHead # head
             allLocks == getLocks(h, t)
             enriched == EnrichedLocks(allLocks, cached, req.filePaths)
             conflictingLocks == Filter(enriched, requestingUser)
             status == checkStatusField(isStale, Len(conflictingLocks))
             body(action, file, user, lockType) ==
                 [ Response(200, FALSE, action, None, file, user) EXCEPT
                     !.status = status, !.lockType = lockType, !.enriched = enriched ]
         IN  IF isStale
             THEN [ body("PULL", None, None, None) EXCEPT !.command = "git pull --rebase" ]
             ELSE IF Len(conflictingLocks) > 0
             THEN body("SWITCH_TASK", conflictingLocks[1].file_path,
                       conflictingLocks[1].user_name, conflictingLocks[1].lock_type)
             ELSE body("PROCEED", None, None, None)

----------------------------------------------------------------------------
(* State machine of the coordination plane *)

NoHeaders == [user |-> None, username |-> None]

NoChange == [ns \in Namespaces |-> {}]

\* No namespace has an activity list yet.
NoActivity == [ns \in Namespaces |-> <<>>]

\* No namespace has a stored graph head yet.
NoMeta == [ns \in Namespaces |-> None]

\* No namespace has a file-SHA hash yet (a hash is a set of path/sha fields).
NoShas == [ns \in Namespaces |-> {}]

NoRequest == [ op |-> None, ns |-> None, headers |-> NoHeaders, userId |-> None,
               filePaths |-> <<>>, agentHead |-> None, newRepoHead |-> None,
               releaseFailed |-> FALSE, feed |-> NoActivity, at |-> 0,
               resp |-> Response(0, FALSE, None, None, None, None),
               displaced |-> NoChange, created |-> NoChange ]

\* The record of a handled request: who asked what and when, the activity
\* lists the handler found (feed), the response, and
\* per namespace the lock records the handler overwrote or deleted (displaced)
\* and the ones it wrote (created), given the lock hashes `post` it leaves.
Handled(op, ns, headers, userId, filePaths, agentHead, resp, post) ==
    [ op |-> op, ns |-> ns, headers |-> headers, userId |-> userId,
      filePaths |-> filePaths, agentHead |-> agentHead, newRepoHead |-> None,
      releaseFailed |-> FALSE, feed |-> activity, at |-> now, resp |-> resp,
      displaced |-> [n \in Namespaces |-> locks[n] \ post[n]],
      created   |-> [n \in Namespaces |-> post[n] \ locks[n]] ]

\* The post_status requests tried. Requests that reach the lock registry
\* (WRITING on the current head, OPEN with an advanced head) come with every
\* identity and every non-empty path list; requests answered before the
\* registry is reached (agent_head missing or stale, READING, OPEN with
\* new_repo_head = agent_head, empty file_paths) come with fewer.
PostRequests ==
    { r \in [ headers : PostHeaderCombos, filePaths : FilePathSeqs(LockPaths),
              status : Statuses, agentHead : Commits \cup {None},
              newRepoHead : Commits \cup {None}, message : Messages ] :
        \/ /\ r.status = "WRITING" /\ r.agentHead = "c1" /\ r.newRepoHead = None
           /\ r.filePaths # <<>> \/ r.headers = NoHeaders
        \/ /\ r.status = "OPEN" /\ r.agentHead = "c1" /\ r.newRepoHead = "c2"
           /\ r.filePaths # <<>>
        \/ /\ r.filePaths = <<"a.ts", "b.ts">>
           /\ \/ r.status = "WRITING" /\ r.agentHead # "c1" /\ r.newRepoHead = None
              \/ r.status = "READING" /\ r.agentHead \in {"c1", None} /\ r.newRepoHead = None
              \/ r.status = "OPEN" /\ r.agentHead = "c1" /\ r.newRepoHead = "c1" }

Init ==
    /\ now = 0
    /\ ticks = 0
    /\ locks = [ns \in Namespaces |-> {}]
    /\ graph = [ns \in Namespaces |-> NoGraph]
    /\ repoHead = [ns \in Namespaces |-> "c1"]
    /\ last = NoRequest
    /\ activity = NoActivity
    /\ published = NoActivity
    /\ graphMeta = NoMeta
    /\ fileShas = NoShas
    /\ inflight = <<>>

\* The clock advances; nothing else changes.
Tick ==
    /\ ticks < MaxTicks
    /\ \E d \in {1, LOCK_TTL_MS - 1} : now' = now + d
    /\ ticks' = ticks + 1
    /\ UNCHANGED <<locks, graph, repoHead, last, inflight, activity, published, graphMeta, fileShas>>

\* One post_status request, handled to completion.
PostStatus ==
    \E ns \in Namespaces, req \in PostRequests :
        LET out == postStatus(locks[ns], getCached(graph[ns]), repoHead[ns], req, now, TRUE)
        IN  /\ locks' = [locks EXCEPT ![ns] = out.store]
            /\ last' = [ Handled(req.status, ns, req.headers, PostUserId(req.headers),
                                 req.filePaths, req.agentHead, out.resp, locks')
                         EXCEPT !.newRepoHead = req.newRepoHead ]
            /\ UNCHANGED <<now, ticks, graph, repoHead, inflight, activity, published, graphMeta, fileShas>>

\* POST /api/release_all_locks (and the lock half of clear_agent_and_feed).
ReleaseAllLocks ==
    \E ns \in Namespaces :
        LET out == releaseAllLocks(locks[ns])
        IN  /\ locks' = [locks EXCEPT ![ns] = out.store]
            /\ last' = Handled("RELEASE_ALL", ns, NoHeaders, None, <<>>, None,
                               Response(200, out.success, None, None, None, None),
                               locks')
            /\ UNCHANGED <<now, ticks, graph, repoHead, inflight, activity, published, graphMeta, fileShas>>

\* GET /api/cleanup_stale_locks: cleanupExpired on every lock namespace.
CleanupStaleLocks ==
    /\ locks' = [ns \in Namespaces |-> cleanupExpiredLocks(locks[ns], now).store]
    /\ last' = Handled("CLEANUP", None, NoHeaders, None, <<>>, None,
                       Response(200, TRUE, None, None, None, None), locks')
    /\ UNCHANGED <<now, ticks, graph, repoHead, inflight, activity, published, graphMeta, fileShas>>

\* An observer lists the namespace's locks (the lock overlay of a graph read).
ListLocks ==
    \E ns \in Namespaces :
        /\ last' = Handled("LIST", ns, NoHeaders, None, <<>>, None,
                           [ Response(200, TRUE, None, None, None, None)
                             EXCEPT !.locks = getLocks(locks[ns], now) ],
                           locks)
        /\ UNCHANGED <<now, ticks, locks, graph, repoHead, inflight, activity, published, graphMeta, fileShas>>

Next ==
    \/ Tick
    \/ PostStatus
    \/ ReleaseAllLocks
    \/ CleanupStaleLocks
    \/ ListLocks

Spec == Init /\ [][Next]_vars

----------------------------------------------------------------------------
(* Properties of the lock registry.                                        *)
(* Every step that changes a lock hash rewrites `last`, so while `last`    *)
(* stands the hashes are the ones its handler left, and the hashes it      *)
(* found are recovered from what it displaced and created.                 *)

\* The namespace's hash as the latest handler found it.
Before(ns) == (locks[ns] \ last.created[ns]) \cup last.displaced[ns]

\* The acquire of the latest post_status ran: the request was well-formed
\* WRITING on a current head, so the handler reached acquireLocks.
AcquireRan == last.op = "WRITING" /\ last.resp.action \in {"SWITCH_TASK", "PROCEED"}

\* The release of the latest post_status ran: OPEN without the push-needed answer.
ReleaseRan == last.op = "OPEN" /\ last.resp.action = "PROCEED"

\* Indexes of the requested paths on which another user's lock is active at t.
BlockedAt(h, fp, u, t) ==
    { i \in DOMAIN fp :
        \E r \in h : r.file_path = fp[i] /\ r.user_id # u /\ t < r.expiry }

\* C1: in every reachable state each (namespace, file path) has at most one
\* lock record, so at most one user holds an active lock on any path.
C1_OneLockPerPath ==
    \A ns \in Namespaces, p \in Paths :
        /\ Cardinality({ r \in locks[ns] : r.file_path = p }) <= 1
        /\ Cardinality({ r.user_id : r \in
                           { q \in locks[ns] : q.file_path = p /\ now < q.expiry } }) <= 1

\* C1 witness: an acquire displaced a record of the path it locked, while
\* another path of the namespace is locked by a different user.
C1_Witness ==
    /\ AcquireRan /\ last.resp.success
    /\ last.displaced[last.ns] # {}
    /\ \E r1, r2 \in locks[last.ns] : r1.user_id # r2.user_id

\* C2: a multi-file acquire is all-or-nothing. If a requested path held an
\* active lock of another user the call answers FILE_CONFLICT citing the first
\* blocking path and its owner and no record of the namespace was created,
\* overwritten or refreshed; otherwise every requested path is locked to the
\* caller.
C2_AcquireAllOrNothing ==
    AcquireRan =>
        LET ns == last.ns
            fp == last.filePaths
            u  == last.userId
            blocked == BlockedAt(Before(ns), fp, u, last.at)
        IN  IF blocked # {}
            THEN LET i == CHOOSE k \in blocked : \A m \in blocked : k <= m
                 IN  /\ ~last.resp.success
                     /\ last.resp.action = "SWITCH_TASK"
                     /\ last.resp.reason = "FILE_CONFLICT"
                     /\ last.resp.file = fp[i]
                     /\ \E r \in Before(ns) :
                            r.file_path = fp[i] /\ r.user_id = last.resp.user
                     /\ last.created = NoChange /\ last.displaced = NoChange
            ELSE /\ last.resp.success
                 /\ \A f \in Range(fp) :
                        \E r \in locks[ns] :
                            r.file_path = f /\ r.user_id = u /\ last.at < r.expiry

\* C2 witness: a two-file acquire was refused because of its second path, and
\* its first path is still unlocked.
C2_Witness ==
    /\ AcquireRan /\ ~last.resp.success
    /\ Len(last.filePaths) = 2
    /\ last.resp.file = last.filePaths[2]
    /\ ~HExists(locks[last.ns], last.filePaths[1])

C5_ReleaseOnlyOwn ==
    ReleaseRan =>
        /\ locks[last.ns] =
              { r \in Before(last.ns) :
                  ~(r.file_path \in Range(last.filePaths) /\ r.user_id = last.userId) }
        /\ \A other \in Namespaces \ {last.ns} : locks[other] = Before(other)

\* C5 witness: a release removed the caller's lock on one requested path and
\* left another user's lock on the other requested path in place.
C5_Witness ==
    /\ ReleaseRan
    /\ last.displaced[last.ns] # {}
    /\ \E r \in locks[last.ns] :
          r.file_path \in Range(last.filePaths) /\ r.user_id # last.userId

\* C6: a lock is active iff now < expiry. A listing holds exactly the records
\* with now < expiry, and an acquire is refused iff a requested path held a
\* record of another user with now < expiry, whether or not the expired
\* records have been cleaned up.
C6_ActiveIffBeforeExpiry ==
    /\ (last.op = "LIST" /\ now = last.at) =>
          \A r \in locks[last.ns] : (r \in last.resp.locks) <=> (now < r.expiry)
    /\ AcquireRan =>
          (last.resp.success <=>
             ~\E r \in Before(last.ns) :
                 /\ r.file_path \in Range(last.filePaths)
                 /\ r.user_id # last.userId
                 /\ last.at < r.expiry)

\* C6 witness: a record still stored at the very instant of its expiry was
\* displaced by another user's successful acquire.
C6_Witness ==
    /\ AcquireRan /\ last.resp.success
    /\ \E r \in last.displaced[last.ns] : r.user_id # last.userId /\ r.expiry = last.at

\* C7: once LOCK_TTL_MS has elapsed since the timestamp of every lock that
\* other users hold on the requested paths, an acquire of those paths
\* succeeds and leaves them locked to the caller, cleanup or no cleanup.
C7_ExpiredLockYields ==
    AcquireRan =>
        LET ns == last.ns
            others == { r \in Before(ns) :
                          r.file_path \in Range(last.filePaths) /\ r.user_id # last.userId }
        IN  (\A r \in others : last.at >= r.timestamp + LOCK_TTL_MS) =>
                /\ last.resp.success
                /\ \A f \in Range(last.filePaths) :
                       \E r \in locks[ns] : r.file_path = f /\ r.user_id = last.userId

\* C7 witness: a lock taken at some time and never renewed or released was
\* displaced, more than a TTL later, by another user's successful acquire.
C7_Witness ==
    /\ AcquireRan /\ last.resp.success
    /\ \E r \in last.displaced[last.ns] :
          r.user_id # last.userId /\ last.at > r.timestamp + LOCK_TTL_MS

----------------------------------------------------------------------------
(* Two acquire requests in flight together.                                *)
(* Each handler reaches the store once, when its script runs; the scripts  *)
(* of the two requests run in either order, and a request stays in flight  *)
(* for at most RequestDeadlineMs.                                          *)

\* The lock hashes the race may start from: each path unlocked or locked at
\* time 0 by one of the identities.
RaceStores ==
    { { LockRecord(f, [ userId |-> PostUserId(owner[f]), userName |-> PostUserName(owner[f]),
                        status |-> "WRITING", agentHead |-> "c1", message |-> "work" ], 0)
        : f \in DOMAIN owner }
      : owner \in UNION { [S -> PostHeaderCombos] : S \in SUBSET LockPaths } }

RaceStartTimes == {0, LOCK_TTL_MS - 1, LOCK_TTL_MS}

RaceCall(hdr, fp, h, t) ==
    [ headers |-> hdr, filePaths |-> fp, receivedAt |-> t,
      free |-> \A f \in Range(fp) : ~(HExists(h, f) /\ IsActive(HGet(h, f), t)),
      done |-> FALSE, resp |-> Response(0, FALSE, None, None, None, None) ]

RaceInit ==
    /\ now \in RaceStartTimes
    /\ ticks = 0
    /\ \E h \in RaceStores : locks = [ns \in Namespaces |-> h]
    /\ graph = [ns \in Namespaces |-> NoGraph]
    /\ repoHead = [ns \in Namespaces |-> "c1"]
    /\ last = NoRequest
    /\ activity = NoActivity
    /\ published = NoActivity
    /\ graphMeta = NoMeta
    /\ fileShas = NoShas
    /\ \E h1, h2 \in HeaderCombos, fp1, fp2 \in FilePathSeqs(LockPaths) \ {<<>>} :
          inflight = << RaceCall(h1, fp1, locks["main"], now),
                        RaceCall(h2, fp2, locks["main"], now) >>

\* Time passes while a request is in flight, within the request deadline.
RaceTick ==
    /\ ticks < MaxTicks
    /\ \E i \in DOMAIN inflight : ~inflight[i].done
    /\ \E d \in {1, RequestDeadlineMs - 1} :
          /\ \A i \in DOMAIN inflight :
                ~inflight[i].done => now + d - inflight[i].receivedAt <= RequestDeadlineMs
          /\ now' = now + d
    /\ ticks' = ticks + 1
    /\ UNCHANGED <<locks, graph, repoHead, last, inflight, activity, published, graphMeta, fileShas>>

\* The handler of an in-flight WRITING request on the current head runs.
RaceExec ==
    \E i \in DOMAIN inflight :
        /\ ~inflight[i].done
        /\ LET c   == inflight[i]
               req == [ headers |-> c.headers, filePaths |-> c.filePaths,
                        status |-> "WRITING", agentHead |-> repoHead["main"],
                        newRepoHead |-> None, message |-> "work" ]
               out == postStatus(locks["main"], getCached(graph["main"]),
                                 repoHead["main"], req, now, TRUE)
           IN  /\ locks' = [locks EXCEPT !["main"] = out.store]
               /\ inflight' = [inflight EXCEPT ![i].done = TRUE, ![i].resp = out.resp]
               /\ last' = Handled("WRITING", "main", c.headers, PostUserId(c.headers),
                                   c.filePaths, req.agentHead, out.resp, locks')
        /\ UNCHANGED <<now, ticks, graph, repoHead, activity, published, graphMeta, fileShas>>

RaceNext == RaceTick \/ RaceExec

SpecRace == RaceInit /\ [][RaceNext]_vars

\* The identity a request's headers name (None when they name nobody).
CallerOf(hdr) == IF hdr.user # None THEN hdr.user ELSE hdr.username

\* C3: two concurrent acquires by different users on paths that held no
\* active lock: with disjoint path sets both succeed; with overlapping path
\* sets exactly one succeeds and the other receives FILE_CONFLICT, whichever
\* script runs first.
C3_ConcurrentAcquires ==
    LET a == inflight[1]
        b == inflight[2]
    IN  (/\ a.done /\ b.done
         /\ a.free /\ b.free
         /\ CallerOf(a.headers) # CallerOf(b.headers)) =>
            IF Range(a.filePaths) \cap Range(b.filePaths) = {}
            THEN a.resp.success /\ b.resp.success
            ELSE \/ a.resp.success /\ ~b.resp.success /\ b.resp.reason = "FILE_CONFLICT"
                 \/ b.resp.success /\ ~a.resp.success /\ a.resp.reason = "FILE_CONFLICT"

\* C3 witness: two users raced for overlapping path sets that were free, the
\* second request's script ran first and won, and the first was refused.
C3_Witness ==
    LET a == inflight[1]
        b == inflight[2]
    IN  /\ a.done /\ b.done /\ a.free /\ b.free
        /\ CallerOf(a.headers) # CallerOf(b.headers)
        /\ Range(a.filePaths) \cap Range(b.filePaths) # {}
        /\ Range(a.filePaths) # Range(b.filePaths)
        /\ b.resp.success /\ a.resp.reason = "FILE_CONFLICT"
        /\ now > a.receivedAt

----------------------------------------------------------------------------
(* check_status over the lock hashes and cached graphs it may find *)

\* Cached graphs: none, empty, and edge lists sorted by source, then target.
GraphChoices ==
    { NoGraph,
      [present |-> TRUE, edges |-> <<>>],
      [present |-> TRUE, edges |-> << [source |-> "a.ts", target |-> "b.ts"] >>],
      [present |-> TRUE, edges |-> << [source |-> "a.ts", target |-> "c.ts"],
                                      [source |-> "b.ts", target |-> "a.ts"] >>],
      [present |-> TRUE, edges |-> << [source |-> "a.ts", target |-> "b.ts"],
                                      [source |-> "b.ts", target |-> "a.ts"],
                                      [source |-> "b.ts", target |-> "c.ts"] >>] }

\* Who may hold a path when check_status runs: a caller without identity
\* headers or u1, with a lock taken at time 1, or u2 with one taken at time 0.
CheckHolders ==
    { [hdr |-> h, at |-> 1] : h \in { c \in PostHeaderCombos : c.username = None } }
      \cup { [hdr |-> [user |-> "u2", username |-> "U2 Name"], at |-> 0] }

CheckStores ==
    { { LockRecord(f, [ userId |-> PostUserId(holder[f].hdr),
                        userName |-> PostUserName(holder[f].hdr),
                        status |-> "WRITING", agentHead |-> "c1", message |-> "work" ],
                   holder[f].at)
        : f \in DOMAIN holder }
      : holder \in UNION { [S -> CheckHolders] : S \in SUBSET Paths } }

\* The clock stands at the expiry of the locks taken at time 0.
CheckInit ==
    /\ now = LOCK_TTL_MS
    /\ ticks = 0
    /\ \E h \in CheckStores : locks = [ns \in Namespaces |-> h]
    /\ \E g \in GraphChoices : graph = [ns \in Namespaces |-> g]
    /\ repoHead = [ns \in Namespaces |-> "c1"]
    /\ last = NoRequest
    /\ activity = NoActivity
    /\ published = NoActivity
    /\ graphMeta = NoMeta
    /\ fileShas = NoShas
    /\ inflight = <<>>

\* One check_status request, handled to completion.
CheckStatus ==
    \E ns \in Namespaces, hdr \in HeaderCombos, fp \in FilePathSeqs(Paths),
       ah \in Commits \cup {None} :
        LET req == [ headers |-> hdr, filePaths |-> fp, agentHead |-> ah ]
        IN  /\ last' = Handled("CHECK", ns, hdr, CheckRequestingUser(hdr), fp, ah,
                               checkStatus(locks[ns], getCached(graph[ns]),
                                           repoHead[ns], req, now),
                               locks)
            /\ UNCHANGED <<now, ticks, locks, graph, repoHead, inflight, activity, published, graphMeta, fileShas>>

CheckNext == CheckStatus

SpecCheck == CheckInit /\ [][CheckNext]_vars

\* Identity of a caller: x-github-user, else x-github-username, else "anonymous".
CallerIdentity(hdr) ==
    IF hdr.user # None THEN hdr.user
    ELSE IF hdr.username # None THEN hdr.username
    ELSE "anonymous"

\* The check_status call just answered 200.
Checked == last.op = "CHECK" /\ last.resp.http = 200

\* The paths joined to a requested path by a cached edge, in either direction.
NeighborsOf(cached, requested) ==
    IF cached.present
    THEN { p \in Paths \ requested :
             \E i \in DOMAIN cached.edges :
                 \/ cached.edges[i].source = p /\ cached.edges[i].target \in requested
                 \/ cached.edges[i].target = p /\ cached.edges[i].source \in requested }
    ELSE {}

\* The active locks on the requested paths and on their neighbors.
DirectOrNeighbor ==
    LET requested == Range(last.filePaths)
    IN  { r \in locks[last.ns] :
            /\ now < r.expiry
            /\ r.file_path \in requested \cup NeighborsOf(graph[last.ns], requested) }

\* C8: whenever agent_head differs from the remote head, check_status answers
\* status = STALE and action = PULL, whatever locks exist and whoever owns them.
C8_StaleTakesPrecedence ==
    (Checked /\ last.agentHead # repoHead[last.ns]) =>
        last.resp.status = "STALE" /\ last.resp.action = "PULL"

\* C9: whenever agent_head equals the remote head and every direct or neighbor
\* lock is owned by the caller, check_status answers status = OK and
\* action = PROCEED, and lists the caller's own locks.
C9_OwnLocksAreNoConflict ==
    (/\ Checked
     /\ last.agentHead = repoHead[last.ns]
     /\ \A r \in DirectOrNeighbor : r.user_id = CallerIdentity(last.headers)) =>
        /\ last.resp.status = "OK"
        /\ last.resp.action = "PROCEED"
        /\ \A r \in DirectOrNeighbor :
              \E i \in DOMAIN last.resp.enriched :
                  last.resp.enriched[i].file_path = r.file_path

\* C10: whenever agent_head equals the remote head and some direct or neighbor
\* lock is owned by a user other than the caller, check_status answers
\* status = CONFLICT and action = SWITCH_TASK, and the reason cites the first
\* such lock's file, its owner and its lock type.
C10_ForeignLockSwitchesTask ==
    (/\ Checked
     /\ last.agentHead = repoHead[last.ns]
     /\ \E r \in DirectOrNeighbor : r.user_id # CallerIdentity(last.headers)) =>
        LET listed  == last.resp.enriched
            foreign == { i \in DOMAIN listed :
                           listed[i].user_id # CallerIdentity(last.headers) }
        IN  /\ last.resp.status = "CONFLICT"
            /\ last.resp.action = "SWITCH_TASK"
            /\ foreign # {}
            /\ LET first == listed[CHOOSE i \in foreign : \A j \in foreign : i <= j]
               IN  /\ last.resp.file = first.file_path
                   /\ last.resp.user \in {first.user_id, first.user_name}
                   /\ last.resp.lockType = first.lock_type

\* C11: the locks check_status returns are exactly the active locks on
\* requested paths, tagged DIRECT, plus the active locks on non-requested
\* paths joined to a requested path by a cached edge in either direction,
\* tagged NEIGHBOR; a requested path's lock is DIRECT even when the path is
\* also adjacent, and no lock on any other path is returned.
C11_ReturnedLocksAreDirectOrNeighbor ==
    Checked =>
        LET requested == Range(last.filePaths)
            listed    == last.resp.enriched
            tag(r)    == IF r.file_path \in requested THEN "DIRECT" ELSE "NEIGHBOR"
            same(e, r) ==
                /\ e.file_path = r.file_path
                /\ e.user_id = r.user_id
                /\ e.user = r.user_id
                /\ e.user_name = r.user_name
                /\ e.timestamp = r.timestamp
                /\ e.expiry = r.expiry
                /\ e.lock_type = tag(r)
        IN  /\ \A i \in DOMAIN listed : \E r \in DirectOrNeighbor : same(listed[i], r)
            /\ \A r \in DirectOrNeighbor : \E i \in DOMAIN listed : same(listed[i], r)
            /\ \A i, j \in DOMAIN listed :
                  i # j => listed[i].file_path # listed[j].file_path

\* C11 witness: the response lists a DIRECT lock on a requested path that is
\* the target of an edge from another requested path, and a NEIGHBOR lock,
\* while an expired lock on a requested path is left out.
C11_Witness ==
    /\ Checked
    /\ LET requested == Range(last.filePaths)
           listed    == last.resp.enriched
           edges     == graph[last.ns].edges
       IN  /\ \E i \in DOMAIN listed, k \in DOMAIN edges :
                 /\ listed[i].lock_type = "DIRECT"
                 /\ edges[k].target = listed[i].file_path
                 /\ edges[k].source \in requested
           /\ \E i \in DOMAIN listed : listed[i].lock_type = "NEIGHBOR"
           /\ \E r \in locks[last.ns] :
                 r.file_path \in requested /\ now >= r.expiry

----------------------------------------------------------------------------
(* post_status OPEN over the lock hashes and cached graphs it may find,    *)
(* with a KV store that may refuse the release                             *)

\* The lock hashes of CheckStores that hold records of LockPaths only.
OpenStores == { h \in CheckStores : \A r \in h : r.file_path \in LockPaths }

\* OPEN requests: every identity, every non-empty path list, with and without
\* an advanced head.
OpenRequests ==
    { r \in [ headers : PostHeaderCombos, filePaths : FilePathSeqs(Paths),
              status : {"OPEN"}, agentHead : {"c1"},
              newRepoHead : Commits, message : Messages ] :
        r.filePaths # <<>> }

OpenInit ==
    /\ now = LOCK_TTL_MS
    /\ ticks = 0
    /\ \E h \in OpenStores : locks = [ns \in Namespaces |-> h]
    /\ \E g \in GraphChoices : graph = [ns \in Namespaces |-> g]
    /\ repoHead = [ns \in Namespaces |-> "c1"]
    /\ last = NoRequest
    /\ inflight = <<>>
    /\ activity = NoActivity
    /\ published = NoActivity
    /\ graphMeta = NoMeta
    /\ fileShas = NoShas

\* One post_status OPEN request, handled to completion; the release script
\* runs or is refused by the store.
OpenStatus ==
    \E ns \in Namespaces, req \in OpenRequests, releaseOk \in BOOLEAN :
        LET out == postStatus(locks[ns], getCached(graph[ns]), repoHead[ns], req, now,
                              releaseOk)
        IN  /\ locks' = [locks EXCEPT ![ns] = out.store]
            /\ last' = [ Handled(req.status, ns, req.headers, PostUserId(req.headers),
                                 req.filePaths, req.agentHead, out.resp, locks')
                         EXCEPT !.newRepoHead = req.newRepoHead,
                                !.releaseFailed =
                                    /\ ~postStatusPushNeeded(req.agentHead, req.newRepoHead)
                                    /\ ~releaseOk ]
            /\ UNCHANGED <<now, ticks, graph, repoHead, inflight, activity, published, graphMeta, fileShas>>

OpenNext == OpenStatus

SpecOpen == OpenInit /\ [][OpenNext]_vars

----------------------------------------------------------------------------
(* Properties of post_status *)

\* The latest request was a well-formed post_status with status st.
Posted(st) == last.op = st /\ last.filePaths # <<>>

\* C12: a post_status WRITING whose agent_head differs from the remote head
\* answers success = false with orchestration PULL and acquires no lock: the
\* lock state of every namespace is the same after the call as before it.
C12_StaleWritingLocksNothing ==
    (/\ Posted("WRITING")
     /\ last.agentHead # None
     /\ last.agentHead # repoHead[last.ns]) =>
        /\ ~last.resp.success
        /\ last.resp.action = "PULL"
        /\ last.created = NoChange
        /\ last.displaced = NoChange

\* C12 witness: a stale WRITING request was answered PULL although every path
\* it asked for was free to take (unlocked, expired or the caller's own).
C12_Witness ==
    /\ Posted("WRITING")
    /\ last.agentHead # None
    /\ last.agentHead # repoHead[last.ns]
    /\ last.resp.action = "PULL"
    /\ locks[last.ns] # {}
    /\ BlockedAt(locks[last.ns], last.filePaths, last.userId, last.at) = {}

\* C13: a post_status WRITING on the current head that is blocked by another
\* user's active lock answers HTTP 200 with success = false and orchestration
\* SWITCH_TASK, and the reason holds FILE_CONFLICT, a requested path that
\* another user holds, and that user.
C13_ConflictIsSwitchTask ==
    (/\ Posted("WRITING")
     /\ last.agentHead = repoHead[last.ns]
     /\ BlockedAt(Before(last.ns), last.filePaths, last.userId, last.at) # {}) =>
        /\ last.resp.http = 200
        /\ ~last.resp.success
        /\ last.resp.action = "SWITCH_TASK"
        /\ last.resp.reason = "FILE_CONFLICT"
        /\ \E r \in Before(last.ns) :
              /\ r.file_path = last.resp.file
              /\ r.file_path \in Range(last.filePaths)
              /\ r.user_id # last.userId
              /\ last.at < r.expiry
              /\ last.resp.user \in {r.user_id, r.user_name}

\* C13 witness: a WRITING request on the current head by a caller who holds
\* one of the requested paths was refused because of the other one.
C13_Witness ==
    /\ Posted("WRITING")
    /\ last.agentHead = repoHead[last.ns]
    /\ last.resp.action = "SWITCH_TASK"
    /\ \E r \in locks[last.ns] :
          /\ r.file_path \in Range(last.filePaths)
          /\ r.user_id = last.userId
          /\ last.at < r.expiry

\* C14: a post_status READING goes through the same atomic acquire as
\* WRITING. If another user's active lock blocks it the answer is SWITCH_TASK
\* and no lock is written; otherwise it succeeds and a READING lock owned by
\* the caller exists on every requested path.
C14_ReadingAcquires ==
    Posted("READING") =>
        IF BlockedAt(Before(last.ns), last.filePaths, last.userId, last.at) # {}
        THEN /\ ~last.resp.success
             /\ last.resp.action = "SWITCH_TASK"
             /\ last.created = NoChange
             /\ last.displaced = NoChange
        ELSE /\ last.resp.success
             /\ \A f \in Range(last.filePaths) :
                   \E r \in locks[last.ns] :
                       /\ r.file_path = f
                       /\ r.user_id = last.userId
                       /\ r.status = "READING"
                       /\ last.at < r.expiry

\* Both heads of the latest request are present and equal.
PushNeeded ==
    /\ last.newRepoHead # None
    /\ last.agentHead # None
    /\ last.newRepoHead = last.agentHead

\* C15: a post_status OPEN in which new_repo_head and agent_head are both
\* present and equal answers success = false with orchestration PUSH and the
\* command "git push", and performs no release: every lock of every
\* namespace, the caller's included, is unchanged.
C15_PushNeededReleasesNothing ==
    (Posted("OPEN") /\ PushNeeded) =>
        /\ ~last.resp.success
        /\ last.resp.action = "PUSH"
        /\ last.resp.command = "git push"
        /\ last.created = NoChange
        /\ last.displaced = NoChange

\* C15 witness: the push-needed answer was given to a caller who still holds
\* an active lock on a path the request named.
C15_Witness ==
    /\ Posted("OPEN") /\ PushNeeded
    /\ last.resp.action = "PUSH"
    /\ \E r \in locks[last.ns] :
          /\ r.file_path \in Range(last.filePaths)
          /\ r.user_id = last.userId
          /\ last.at < r.expiry

\* C16: post_status never answers a business outcome with an HTTP error
\* status: a stale head (PULL), a lock conflict (SWITCH_TASK) and a
\* push-needed outcome (PUSH) are each HTTP 200 with success = false.
C16_BusinessOutcomesAre200 ==
    (/\ last.op \in Statuses
     /\ last.resp.action \in {"PULL", "SWITCH_TASK", "PUSH"}) =>
        /\ last.resp.http = 200
        /\ ~last.resp.success

\* C17: when the release performed by post_status OPEN fails, the response is
\* HTTP 500 with success = false and orchestration STOP, never
\* success = true / PROCEED.
C17_ReleaseFailureStops ==
    (Posted("OPEN") /\ last.releaseFailed) =>
        /\ last.resp.http = 500
        /\ ~last.resp.success
        /\ last.resp.action = "STOP"

\* C18: after a successful post_status OPEN releasing the paths R, the
\* response carries PROCEED and orphaned_dependencies is exactly the set of
\* files g outside R with a cached edge g -> f into some f of R; it is empty
\* when no graph is cached.
C18_OrphanedDependencies ==
    (Posted("OPEN") /\ last.resp.success /\ ~last.releaseFailed) =>
        LET R     == Range(last.filePaths)
            g     == graph[last.ns]
            edges == g.edges
        IN  /\ last.resp.action = "PROCEED"
            /\ last.resp.orphaned =
                  IF g.present
                  THEN { p \in Paths \ R :
                           \E k \in DOMAIN edges :
                               edges[k].source = p /\ edges[k].target \in R }
                  ELSE {}

\* C18 witness: a release that deleted a lock reported an orphaned dependency
\* while the cached graph also has an edge out of a released path.
C18_Witness ==
    /\ Posted("OPEN") /\ last.resp.success /\ ~last.releaseFailed
    /\ last.displaced[last.ns] # {}
    /\ last.resp.orphaned # {}
    /\ \E k \in DOMAIN graph[last.ns].edges :
          /\ graph[last.ns].edges[k].source \in Range(last.filePaths)
          /\ graph[last.ns].edges[k].target \notin Range(last.filePaths)

\* C19: check_status and post_status resolve the caller's identity by the
\* same rule (x-github-user, else x-github-username, else "anonymous"): for
\* every combination of identity headers, the caller id check_status compares
\* lock owners with is the user id post_status records a lock under.
C19_SameIdentityRule ==
    Checked =>
        /\ last.userId = CallerIdentity(last.headers)
        /\ last.userId = PostUserId(last.headers)

\* C20: every successful state-changing post_status pushes exactly one
\* activity event per affected file onto the head of the namespace's activity
\* list (the list being far from its retention limit), and a post_status that
\* does not succeed leaves the list as it was.
C20_ActivityPerAffectedFile ==
    (last.op \in Statuses) =>
        LET before == last.feed[last.ns]
            after  == activity[last.ns]
            n      == Len(last.filePaths)
        IN  IF last.resp.success
            THEN /\ Len(after) = Len(before) + n
                 /\ SubSeq(after, n + 1, Len(after)) = before
                 /\ \A i \in DOMAIN last.filePaths :
                       \E k \in 1..n :
                           /\ after[k].file_path = last.filePaths[i]
                           /\ after[k].user_id = last.userId
                           /\ after[k].status = last.op
                           /\ after[k].timestamp = last.at
            ELSE after = before

----------------------------------------------------------------------------
(* Activity log: lib/activity.ts *)

MAX_ACTIVITY_RETENTION == 500

DEFAULT_ACTIVITY_LIMIT == 120

Min(a, b) == IF a < b THEN a ELSE b

\* The first n elements of a list (LRANGE key 0 n-1, LTRIM key 0 n-1).
Take(list, n) == SubSeq(list, 1, Min(n, Len(list)))

Reverse(list) == [ i \in 1..Len(list) |-> list[Len(list) + 1 - i] ]

\* The event publishActivityEvents builds for input.filePaths[index]; the id
\* is `${timestamp}:${userId}:${status}:${filePath}:${index}`.
ActivityEvent(input, index, t) ==
    [ file_path |-> input.filePaths[index],
      user_id   |-> input.userId,
      user_name |-> input.userName,
      status    |-> input.status,
      message   |-> input.message,
      timestamp |-> t,
      index     |-> index - 1 ]

\* LPUSH key v1 ... vn: each value goes to the head, so vn ends up first.
LPush(list, values) == Reverse(values) \o list

\* The payloads of one publish call, in filePaths order.
Payloads(input, t) == [ i \in 1..Len(input.filePaths) |-> ActivityEvent(input, i, t) ]

\* getRecentActivityEvents: LRANGE 0 safeLimit-1, reversed to oldest-first.
getRecentActivityEvents(list, limit) ==
    LET safeLimit == IF limit < 1 THEN 1 ELSE limit
    IN  Reverse(Take(list, safeLimit))

----------------------------------------------------------------------------
(* Concurrent publishes onto an activity list near its retention limit *)

MaxPublishers == 2

\* Lengths of the list when the publishes arrive.
FeedLengths == {0, MAX_ACTIVITY_RETENTION - 1, MAX_ACTIVITY_RETENTION}

\* Limits readers ask for: the default, and more than the retention limit.
FeedLimits == {DEFAULT_ACTIVITY_LIMIT, MAX_ACTIVITY_RETENTION + 100}

\* The clock when the publishes arrive; older events carry earlier times.
FeedStart == 2 * MAX_ACTIVITY_RETENTION

\* A list of n earlier events, newest first.
OldFeed(n) ==
    [ k \in 1..n |->
        [ file_path |-> "a.ts", user_id |-> "u1", user_name |-> "u1",
          status |-> "WRITING", message |-> "work",
          timestamp |-> FeedStart - k, index |-> 0 ] ]

\* A publish call: its input and how far it got (start, pushed, done).
PublishCall(hdr, fp) ==
    [ input |-> [ filePaths |-> fp, userId |-> PostUserId(hdr),
                  userName |-> PostUserName(hdr), status |-> "WRITING",
                  message |-> "work" ],
      pc |-> "start", timestamp |-> 0 ]

\* The publish calls tried: two users, one or two files each.
PublishCalls ==
    { PublishCall(h, fp) :
        h \in { c \in PostHeaderCombos : c.user # None },
        fp \in { q \in FilePathSeqs(LockPaths) : q # <<>> /\ q[1] = "a.ts" } }

FeedInit ==
    /\ now = FeedStart
    /\ ticks = 0
    /\ locks = [ns \in Namespaces |-> {}]
    /\ graph = [ns \in Namespaces |-> NoGraph]
    /\ repoHead = [ns \in Namespaces |-> "c1"]
    /\ last = NoRequest
    /\ \E n \in FeedLengths :
          /\ activity = [ns \in Namespaces |-> OldFeed(n)]
          /\ published = activity
    /\ graphMeta = NoMeta
    /\ fileShas = NoShas
    /\ \E calls \in [ 1..MaxPublishers -> PublishCalls ] : inflight = calls

\* await listClient.lpush(key, ...payloads)
PublishPush ==
    \E i \in DOMAIN inflight, ns \in Namespaces :
        /\ inflight[i].pc = "start"
        /\ LET payloads == Payloads(inflight[i].input, now)
           IN  /\ activity' = [activity EXCEPT ![ns] = LPush(@, payloads)]
               /\ published' = [published EXCEPT ![ns] = LPush(@, payloads)]
        /\ inflight' = [inflight EXCEPT ![i].pc = "pushed", ![i].timestamp = now]
        /\ UNCHANGED <<now, ticks, locks, graph, repoHead, last, graphMeta, fileShas>>

\* await listClient.ltrim(key, 0, MAX_ACTIVITY_RETENTION - 1)
PublishTrim ==
    \E i \in DOMAIN inflight, ns \in Namespaces :
        /\ inflight[i].pc = "pushed"
        /\ activity' = [activity EXCEPT ![ns] = Take(@, MAX_ACTIVITY_RETENTION)]
        /\ inflight' = [inflight EXCEPT ![i].pc = "done"]
        /\ UNCHANGED <<now, ticks, locks, graph, repoHead, last, published,
                       graphMeta, fileShas>>

\* A reader lists the namespace's recent events.
ReadActivity ==
    \E ns \in Namespaces, limit \in FeedLimits :
        /\ last' = Handled("FEED", ns, NoHeaders, None, <<>>, None,
                           [ Response(200, TRUE, None, None, None, None)
                             EXCEPT !.events = getRecentActivityEvents(activity[ns], limit) ],
                           locks)
        /\ UNCHANGED <<now, ticks, locks, graph, repoHead, inflight, activity,
                       published, graphMeta, fileShas>>

FeedNext == PublishPush \/ PublishTrim \/ ReadActivity

SpecFeed == FeedInit /\ [][FeedNext]_vars

\* C21: in every state a reader can observe, concurrent publishes included,
\* a namespace's activity list holds at most 500 events, and they are the
\* most recently pushed ones: a push onto a full list drops the oldest.
C21_FeedHoldsNewest500 ==
    \A ns \in Namespaces :
        /\ Len(activity[ns]) <= MAX_ACTIVITY_RETENTION
        /\ activity[ns] = Take(published[ns], MAX_ACTIVITY_RETENTION)
        /\ (last.op = "FEED" /\ last.ns = ns) =>
               Len(last.resp.events) <= MAX_ACTIVITY_RETENTION

----------------------------------------------------------------------------
(* POST /api/clear_agent_and_feed *)

\* clearActivityEvents that did not throw: LLEN, then DEL of the key.
clearActivityEvents(list) ==
    [ success |-> TRUE, cleared |-> Len(list), list |-> <<>> ]

\* clearActivityEvents whose KV command threw: the catch block's answer.
clearActivityEventsFailed(list) ==
    [ success |-> FALSE, cleared |-> 0, list |-> list ]

\* releaseAll that could not run: it reports success = false.
releaseAllLocksFailed(h) ==
    [ success |-> FALSE, released |-> 0, store |-> h ]

\* The response built from the two results once Promise.all has settled.
clearAgentAndFeedResponse(locksResult, activityResult) ==
    IF ~locksResult.success \/ ~activityResult.success
    THEN [ Response(500, FALSE, None, None, None, None) EXCEPT
             !.details = [ locks_cleared |-> locksResult.success,
                           feed_cleared  |-> activityResult.success ] ]
    ELSE [ Response(200, TRUE, None, None, None, None) EXCEPT
             !.details = [ locks_cleared |-> TRUE, feed_cleared |-> TRUE ] ]

\* A call in progress: the result of each of the two operations Promise.all
\* started (pending until it settles) and whether the response went out.
ClearCall ==
    [ locks |-> "pending", feed |-> "pending", responded |-> FALSE,
      resp |-> Response(0, FALSE, None, None, None, None) ]

\* Activity lists the call may find.
ClearFeeds == { OldFeed(n) : n \in 0..MaxFilePaths }

ClearInit ==
    /\ now = FeedStart
    /\ ticks = 0
    /\ \E h \in OpenStores : locks = [ns \in Namespaces |-> h]
    /\ graph = [ns \in Namespaces |-> NoGraph]
    /\ repoHead = [ns \in Namespaces |-> "c1"]
    /\ last = NoRequest
    /\ inflight = << ClearCall >>
    /\ \E f \in ClearFeeds :
          /\ activity = [ns \in Namespaces |-> f]
          /\ published = activity
    /\ graphMeta = NoMeta
    /\ fileShas = NoShas

\* releaseAllLocks(normalizedRepoUrl, normalizedBranch) settles.
ClearReleaseAll ==
    \E i \in DOMAIN inflight, ns \in Namespaces, ok \in BOOLEAN :
        /\ inflight[i].locks = "pending"
        /\ LET out == IF ok THEN releaseAllLocks(locks[ns])
                      ELSE releaseAllLocksFailed(locks[ns])
           IN  /\ locks' = [locks EXCEPT ![ns] = out.store]
               /\ inflight' = [inflight EXCEPT
                                 ![i].locks = IF out.success THEN "ok" ELSE "failed"]
        /\ UNCHANGED <<now, ticks, graph, repoHead, last, activity, published,
                       graphMeta, fileShas>>

\* clearActivityEvents(normalizedRepoUrl, normalizedBranch) settles.
ClearActivity ==
    \E i \in DOMAIN inflight, ns \in Namespaces, ok \in BOOLEAN :
        /\ inflight[i].feed = "pending"
        /\ LET out == IF ok THEN clearActivityEvents(activity[ns])
                      ELSE clearActivityEventsFailed(activity[ns])
           IN  /\ activity' = [activity EXCEPT ![ns] = out.list]
               /\ published' = [published EXCEPT ![ns] = out.list]
               /\ inflight' = [inflight EXCEPT
                                 ![i].feed = IF out.success THEN "ok" ELSE "failed"]
        /\ UNCHANGED <<now, ticks, locks, graph, repoHead, last, graphMeta, fileShas>>

\* Promise.all has settled: the handler answers.
ClearRespond ==
    \E i \in DOMAIN inflight, ns \in Namespaces :
        /\ ~inflight[i].responded
        /\ inflight[i].locks # "pending"
        /\ inflight[i].feed # "pending"
        /\ LET resp == clearAgentAndFeedResponse([success |-> inflight[i].locks = "ok"],
                                                 [success |-> inflight[i].feed = "ok"])
           IN  /\ inflight' = [inflight EXCEPT ![i].responded = TRUE, ![i].resp = resp]
               /\ last' = Handled("CLEAR", ns, NoHeaders, None, <<>>, None, resp, locks)
        /\ UNCHANGED <<now, ticks, locks, graph, repoHead, activity, published,
                       graphMeta, fileShas>>

ClearNext == ClearReleaseAll \/ ClearActivity \/ ClearRespond \/ ListLocks \/ ReadActivity

SpecClear == ClearInit /\ [][ClearNext]_vars

\* C22: clear_agent_and_feed is atomic over a namespace. No state, whether
\* between its two steps or after one of them failed, has the call's lock
\* clearing applied without its activity clearing or the reverse; and on
\* partial failure it answers 500 with the {locks_cleared, feed_cleared}
\* diagnostic.
C22_ClearIsAtomic ==
    \A i \in DOMAIN inflight :
        LET c == inflight[i]
        IN  /\ (c.locks = "ok") <=> (c.feed = "ok")
            /\ (c.responded /\ (c.locks = "failed" \/ c.feed = "failed")) =>
                   /\ c.resp.http = 500
                   /\ c.resp.details = [ locks_cleared |-> c.locks = "ok",
                                         feed_cleared  |-> c.feed = "ok" ]

----------------------------------------------------------------------------
(* The remote repository read through the GitHub client *)

\* The supported files of each commit's tree, in tree (path) order:
\* path, blob sha and size.
Tree(c) ==
    IF c = "c1"
    THEN << [path |-> "a.ts", sha |-> "a1", size |-> 1],
            [path |-> "b.ts", sha |-> "b1", size |-> 1] >>
    ELSE IF c = "c3"
    THEN << [path |-> "a.ts", sha |-> "a2", size |-> 2],
            [path |-> "b.ts", sha |-> "b1", size |-> 1],
            [path |-> "c.ts", sha |-> "c1", size |-> 1] >>
    ELSE << [path |-> "a.ts", sha |-> "a2", size |-> 2],
            [path |-> "c.ts", sha |-> "c1", size |-> 1] >>

\* The modules a blob imports, as the paths they name.
ImportsOf(sha) ==
    IF sha = "a1" THEN {"b.ts"}
    ELSE IF sha = "a2" THEN {"b.ts", "c.ts"}
    ELSE IF sha = "c1" THEN {"a.ts"}
    ELSE {}

\* ImportResolver.resolve: an import resolves to a path of the tree at hand.
Resolve(module, allFilePaths) == module \in allFilePaths

----------------------------------------------------------------------------
(* Graph builder: GraphService.generate *)

\* localeCompare on the paths used here.
PathOrder == <<"a.ts", "b.ts", "c.ts">>

Rank(p) == CHOOSE i \in DOMAIN PathOrder : PathOrder[i] = p

\* nodes.sort((a, b) => a.id.localeCompare(b.id))
RECURSIVE SortNodes(_)
SortNodes(S) ==
    IF S = {} THEN <<>>
    ELSE LET n == CHOOSE x \in S : \A y \in S : Rank(x.id) <= Rank(y.id)
         IN  <<n>> \o SortNodes(S \ {n})

EdgeBefore(x, y) ==
    \/ Rank(x.source) < Rank(y.source)
    \/ Rank(x.source) = Rank(y.source) /\ Rank(x.target) <= Rank(y.target)

\* edges.sort by source, then target
RECURSIVE SortEdges(_)
SortEdges(S) ==
    IF S = {} THEN <<>>
    ELSE LET e == CHOOSE x \in S : \A y \in S : EdgeBefore(x, y)
         IN  <<e>> \o SortEdges(S \ {e})

\* A stored graph blob.
GraphBlob(nodes, edges, version, generatedAt, processed) ==
    [ present  |-> TRUE,
      nodes    |-> nodes,
      edges    |-> edges,
      version  |-> version,
      metadata |-> [ generated_at    |-> generatedAt,
                     files_processed |-> processed,
                     edges_found     |-> Len(edges) ] ]

\* The loop over filesToProcess: nodes pushed for files that have none.
RECURSIVE AddNodes(_, _)
AddNodes(nodes, files) ==
    IF files = <<>> THEN nodes
    ELSE LET f == Head(files)
         IN  AddNodes(IF \E n \in nodes : n.id = f.path THEN nodes
                      ELSE nodes \cup { [id |-> f.path, size |-> f.size] },
                      Tail(files))

\* The loop over filesToProcess: edges of the resolved imports of each file.
ImportEdges(files, allFilePaths) ==
    UNION { { [source |-> files[i].path, target |-> m] :
                m \in { x \in ImportsOf(files[i].sha) : Resolve(x, allFilePaths) } }
            : i \in DOMAIN files }

\* What a build computes from the tree of currentHead, the file-SHA hash it
\* read and the graph blob it read: the blob and the hash fields it will
\* write, and the fields it will delete.
\* failed holds the paths whose content fetch throws: the node is pushed
\* before the fetch, the catch leaves the file without edges.
BuildWith(currentHead, storedShas, existing, t, failed) ==
    LET files          == Tree(currentHead)
        allFilePaths   == { files[i].path : i \in DOMAIN files }
        stored(p)      == \E x \in storedShas : x.path = p
        storedSha(p)   == (CHOOSE x \in storedShas : x.path = p).sha
        newFiles       == SelectSeq(files, LAMBDA f : ~stored(f.path))
        changedFiles   == SelectSeq(files, LAMBDA f : stored(f.path) /\ storedSha(f.path) # f.sha)
        deletedFiles   == { x.path : x \in { y \in storedShas : y.path \notin allFilePaths } }
        changedSet     == { changedFiles[i].path : i \in DOMAIN changedFiles }
        hasExistingGraph == existing.present
        nodes0 == IF hasExistingGraph
                  THEN { n \in Range(existing.nodes) : n.id \notin deletedFiles }
                  ELSE {}
        edges0 == IF hasExistingGraph
                  THEN { e \in Range(existing.edges) :
                           /\ e.source \notin deletedFiles
                           /\ e.target \notin deletedFiles
                           /\ e.source \notin changedSet }
                  ELSE {}
        incrementalFiles == newFiles \o changedFiles
        needsFullRebuild ==
            \/ ~hasExistingGraph
            \/ Len(files) > 0 /\ nodes0 = {} /\ incrementalFiles = <<>>
        nodes1 == IF needsFullRebuild THEN {} ELSE nodes0
        edges1 == IF needsFullRebuild THEN {} ELSE edges0
        filesToProcess == IF needsFullRebuild THEN files ELSE incrementalFiles
        nodes == AddNodes(nodes1, filesToProcess)
        fetched == SelectSeq(filesToProcess, LAMBDA f : f.path \notin failed)
        edges == edges1 \cup ImportEdges(fetched, allFilePaths)
    IN  [ graph   |-> GraphBlob(SortNodes(nodes), SortEdges(edges), currentHead, t,
                                Len(fetched)),
          deleted |-> deletedFiles,
          newShas |-> { [path |-> files[i].path, sha |-> files[i].sha] : i \in DOMAIN files } ]

\* A build all of whose content fetches succeed.
Build(currentHead, storedShas, existing, t) ==
    BuildWith(currentHead, storedShas, existing, t, {})

\* pipeline.exec(): set graph, set meta, hdel the deleted fields, hset the
\* new ones. The file-SHA hash after the pipeline.
PipelineShas(shas, deleted, newShas) ==
    { x \in shas : x.path \notin deleted
                   /\ ~\E y \in newShas : y.path = x.path } \cup newShas

----------------------------------------------------------------------------
(* Concurrent generate calls on one namespace *)

MaxBuilders == 2

\* A generate call: the process it runs in, its force flag, where it stands
\* (head, meta, cached, tree, existing, write, done) and what it has read;
\* alone marks a call that starts after every other call has returned,
\* failed holds the paths whose content fetch threw.
GenerateCall(proc, force) ==
    [ proc |-> proc, force |-> force, pc |-> "head",
      currentHead |-> None, storedShas |-> {}, existing |-> NoGraph,
      plan |-> [graph |-> NoGraph, deleted |-> {}, newShas |-> {}],
      result |-> NoGraph, alone |-> FALSE, failed |-> {} ]

\* The path -> sha fields of a commit's tree.
ShaMap(c) == { [path |-> Tree(c)[i].path, sha |-> Tree(c)[i].sha] : i \in DOMAIN Tree(c) }

\* The graph keys are absent, or hold what a build of c1 on an empty
\* namespace wrote at time 0.
GraphInit ==
    /\ now = 1
    /\ ticks = 0
    /\ locks = [ns \in Namespaces |-> {}]
    /\ repoHead = [ns \in Namespaces |-> "c1"]
    /\ last = NoRequest
    /\ activity = NoActivity
    /\ published = NoActivity
    /\ \/ /\ graph = [ns \in Namespaces |-> NoGraph]
          /\ graphMeta = NoMeta
          /\ fileShas = NoShas
       \/ LET first == Build("c1", {}, NoGraph, 0)
          IN  /\ graph = [ns \in Namespaces |-> first.graph]
              /\ graphMeta = [ns \in Namespaces |-> "c1"]
              /\ fileShas = [ns \in Namespaces |-> PipelineShas({}, first.deleted, first.newShas)]
    /\ \E calls \in [ 1..MaxBuilders -> { GenerateCall(p, f) : p \in 1..2, f \in BOOLEAN } ] :
          inflight = calls

\* The branch moves to its next commit.
HeadMoves ==
    \E ns \in Namespaces :
        /\ repoHead[ns] = "c1"
        /\ repoHead' = [repoHead EXCEPT ![ns] = "c2"]
        /\ UNCHANGED <<now, ticks, locks, graph, last, inflight, activity, published,
                       graphMeta, fileShas>>

\* const currentHead = await getRepoHead(...)
GenHead ==
    \E i \in DOMAIN inflight :
        /\ inflight[i].pc = "head"
        /\ inflight' = [inflight EXCEPT
                          ![i].currentHead = repoHead["main"],
                          ![i].pc = IF inflight[i].force THEN "tree" ELSE "meta"]
        /\ UNCHANGED <<now, ticks, locks, graph, repoHead, last, activity, published,
                       graphMeta, fileShas>>

\* const storedHead = await kv.get(keys.meta)
GenMeta ==
    \E i \in DOMAIN inflight :
        /\ inflight[i].pc = "meta"
        /\ inflight' = [inflight EXCEPT
                          ![i].pc = IF graphMeta["main"] = inflight[i].currentHead
                                    THEN "cached" ELSE "tree"]
        /\ UNCHANGED <<now, ticks, locks, graph, repoHead, last, activity, published,
                       graphMeta, fileShas>>

\* const cached = await this.getCached(); if (cached) return cached
GenCached ==
    \E i \in DOMAIN inflight :
        /\ inflight[i].pc = "cached"
        /\ LET cached == getCached(graph["main"])
           IN  inflight' = IF cached.present
                           THEN [inflight EXCEPT ![i].result = cached, ![i].pc = "done"]
                           ELSE [inflight EXCEPT ![i].pc = "tree"]
        /\ UNCHANGED <<now, ticks, locks, graph, repoHead, last, activity, published,
                       graphMeta, fileShas>>

\* getTree(currentHead), then storedShas = await kv.hgetall(keys.fileShas)
GenTree ==
    \E i \in DOMAIN inflight :
        /\ inflight[i].pc = "tree"
        /\ inflight' = [inflight EXCEPT ![i].storedShas = fileShas["main"],
                                        ![i].pc = "existing"]
        /\ UNCHANGED <<now, ticks, locks, graph, repoHead, last, activity, published,
                       graphMeta, fileShas>>

\* existing = await kv.get(keys.graph), then the loop over filesToProcess
GenExisting ==
    \E i \in DOMAIN inflight :
        /\ inflight[i].pc = "existing"
        /\ inflight' = [inflight EXCEPT
                          ![i].existing = graph["main"],
                          ![i].plan = Build(inflight[i].currentHead, inflight[i].storedShas,
                                            graph["main"], now),
                          ![i].pc = "write"]
        /\ UNCHANGED <<now, ticks, locks, graph, repoHead, last, activity, published,
                       graphMeta, fileShas>>

\* await pipeline.exec(), taken as one step; return graph
GenWrite ==
    \E i \in DOMAIN inflight :
        /\ inflight[i].pc = "write"
        /\ graph' = [graph EXCEPT !["main"] = inflight[i].plan.graph]
        /\ graphMeta' = [graphMeta EXCEPT !["main"] = inflight[i].currentHead]
        /\ fileShas' = [fileShas EXCEPT !["main"] =
                          PipelineShas(@, inflight[i].plan.deleted, inflight[i].plan.newShas)]
        /\ inflight' = [inflight EXCEPT ![i].result = inflight[i].plan.graph,
                                        ![i].pc = "done"]
        /\ UNCHANGED <<now, ticks, locks, repoHead, last, activity, published>>

GraphNext ==
    \/ HeadMoves
    \/ GenHead
    \/ GenMeta
    \/ GenCached
    \/ GenTree
    \/ GenExisting
    \/ GenWrite
    \/ Tick

SpecGraph == GraphInit /\ [][GraphNext]_vars

\* The call has decided to build and has not written yet.
Building(c) == c.pc \in {"tree", "existing", "write"}

\* C23: graph builds are single-flight per namespace within a process: at
\* most one build of the namespace is in progress at any time, a call that
\* arrives during a build awaiting that build instead of fetching the tree
\* and writing a second time.
C23_SingleFlight ==
    \A i, j \in DOMAIN inflight :
        (i # j /\ inflight[i].proc = inflight[j].proc) =>
            ~(Building(inflight[i]) /\ Building(inflight[j]))

\* C24: under concurrent builds and reads, every observable state of the
\* three graph keys is the complete output of one build: the stored graph's
\* version equals the stored meta commit and the file-SHA hash is exactly the
\* path -> sha map of the tree the graph was built from.
C24_GraphKeysCoherent ==
    \A ns \in Namespaces :
        graph[ns].present =>
            /\ graphMeta[ns] = graph[ns].version
            /\ fileShas[ns] = ShaMap(graph[ns].version)

\* C25: every graph generate returns, freshly built or served from the cache
\* by the head-unchanged short-circuit, has version equal to the head commit
\* the call fetched.
C25_ReturnedVersionIsFetchedHead ==
    \A i \in DOMAIN inflight :
        inflight[i].pc = "done" =>
            inflight[i].result.version = inflight[i].currentHead

\* C26: a forced build on the commit of the stored graph, with the tree
\* unchanged, returns a graph identical to the previous one in nodes, edges,
\* version and every metadata field except metadata.generated_at.
C26_ForcedRebuildIsIdempotent ==
    \A i \in DOMAIN inflight :
        LET c == inflight[i]
        IN  (/\ c.pc = "done"
             /\ c.force
             /\ c.existing.present
             /\ c.existing.version = c.currentHead
             /\ c.storedShas = ShaMap(c.currentHead)) =>
                /\ c.result.nodes = c.existing.nodes
                /\ c.result.edges = c.existing.edges
                /\ c.result.version = c.existing.version
                /\ c.result.metadata.files_processed = c.existing.metadata.files_processed
                /\ c.result.metadata.edges_found = c.existing.metadata.edges_found

----------------------------------------------------------------------------
(* The MCP tool-call adapter (app/mcp/route): callCheckStatusTool and      *)
(* callPostStatusTool forward a tool call to the internal routes and map   *)
(* the final internal response to a tool result.                           *)

DEFAULT_MCP_BRANCH == "master"

FALLBACK_MCP_BRANCH == "main"

STANDARDIZED_REPO_URL == "https://github.com/luljaj/RelayDevFest"

RefMissingText == "Not Found - https://docs.github.com/rest/git/refs#get-a-reference"

\* String.prototype.trim on the strings of the model.
Trim(s) ==
    CASE s = " "     -> ""
      [] s = " dev " -> "dev"
      [] s = " u1 "  -> "u1"
      [] OTHER       -> s

\* String.prototype.toLowerCase on the error texts of the model.
ToLowerCase(s) ==
    CASE s = RefMissingText             -> "not found - https://docs.github.com/rest/git/refs#get-a-reference"
      [] s = "Reference does not exist" -> "reference does not exist"
      [] s = "Internal server error"    -> "internal server error"
      [] s = "Missing required fields"  -> "missing required fields"
      [] s = "KV unavailable"           -> "kv unavailable"
      [] s = "GitHub API rate limit exceeded" -> "github api rate limit exceeded"
      [] OTHER                          -> s

\* String.prototype.includes on the lower-cased error texts of the model.
Includes(s, needle) ==
    <<s, needle>> \in
        { <<"not found - https://docs.github.com/rest/git/refs#get-a-reference", "git/refs#get-a-reference">>,
          <<"not found - https://docs.github.com/rest/git/refs#get-a-reference", "not found">>,
          <<"reference does not exist", "reference does not exist">> }

NoOrchestration == [present |-> FALSE, action |-> "", reason |-> ""]

Orchestration(action, reason) == [present |-> TRUE, action |-> action, reason |-> reason]

\* A parsed response body (readResponsePayload): the fields the adapter reads.
Payload(details, error, orchestration) ==
    [details |-> details, error |-> error, reason |-> "", orchestration |-> orchestration]

EmptyPayload == Payload("", "", NoOrchestration)

NoResponse == [status |-> 0, payload |-> EmptyPayload]

extractErrorMessage(payload, fallback) ==
    IF Trim(payload.details) # "" THEN payload.details
    ELSE IF Trim(payload.error) # "" THEN payload.error
    ELSE IF Trim(payload.reason) # "" THEN payload.reason
    ELSE fallback

normalizeUsername(arg) ==
    IF ~arg.isString THEN "anonymous"
    ELSE IF Trim(arg.value) # "" THEN Trim(arg.value) ELSE "anonymous"

resolveBranch(arg) ==
    IF arg.isString /\ Trim(arg.value) # ""
    THEN [branch |-> Trim(arg.value), wasProvided |-> TRUE]
    ELSE [branch |-> DEFAULT_MCP_BRANCH, wasProvided |-> FALSE]

shouldRetryOnAnyStatus(response) ==
    LET details == ToLowerCase(extractErrorMessage(response.payload, ""))
    IN  \/ Includes(details, "git/refs#get-a-reference")
        \/ Includes(details, "reference does not exist")
        \/ Includes(details, "not found")

shouldRetryOnMissingBranchReference(response) ==
    IF response.status # 404 /\ response.status # 500 THEN FALSE
    ELSE LET details == ToLowerCase(extractErrorMessage(response.payload, ""))
         IN  \/ Includes(details, "git/refs#get-a-reference")
             \/ Includes(details, "reference does not exist")
             \/ Includes(details, "not found")

\* A tool result: the orchestration the client receives.  source is
\* "payload" when the internal payload is handed on (ensureRecord) and
\* "adapter" when the adapter wrote the envelope; prefix, http and details
\* are the parts of the reason template.
ToolResult(source, action, prefix, http, details) ==
    [source |-> source, action |-> action, prefix |-> prefix, http |-> http, details |-> details]

NoResult == ToolResult("", "", "", 0, "")

PassPayload(payload) ==
    ToolResult("payload", payload.orchestration.action, "", 0, payload.orchestration.reason)

mapCheckStatusResponse(response) ==
    IF response.status = 429
    THEN ToolResult("adapter", "STOP", "", 0, extractErrorMessage(response.payload, "Rate limited"))
    ELSE IF response.status = 400
    THEN ToolResult("adapter", "STOP", "Validation error: ", 0,
                    extractErrorMessage(response.payload, "Validation error"))
    ELSE IF response.status >= 400
    THEN ToolResult("adapter", "STOP", "check_status failed", response.status,
                    extractErrorMessage(response.payload, "HTTP"))
    ELSE PassPayload(response.payload)

checkStatusOffline == ToolResult("adapter", "SWITCH_TASK", "", 0, "System Offline")

mapPostStatusResponseNoConflict(response) ==
    IF response.status = 429
    THEN ToolResult("adapter", "STOP", "", 0, "Rate limited - retry later")
    ELSE IF response.status = 400
    THEN IF response.payload.orchestration.present
         THEN PassPayload(response.payload)
         ELSE ToolResult("adapter", "STOP", "Validation error: ", 0,
                         extractErrorMessage(response.payload, "Validation error"))
    ELSE IF response.status >= 400
    THEN ToolResult("adapter", "STOP", "post_status failed", response.status,
                    extractErrorMessage(response.payload, "HTTP"))
    ELSE PassPayload(response.payload)

mapPostStatusResponse(response) ==
    IF response.status = 429
    THEN ToolResult("adapter", "STOP", "", 0, "Rate limited - retry later")
    ELSE IF response.status = 400
    THEN IF response.payload.orchestration.present
         THEN PassPayload(response.payload)
         ELSE ToolResult("adapter", "STOP", "Validation error: ", 0,
                         extractErrorMessage(response.payload, "Validation error"))
    ELSE IF response.status = 409
    THEN ToolResult("adapter", "WAIT", "", 0, "Conflict: File locked by another user")
    ELSE IF response.status >= 400
    THEN ToolResult("adapter", "STOP", "post_status failed", response.status,
                    extractErrorMessage(response.payload, "HTTP"))
    ELSE PassPayload(response.payload)

postStatusOffline == ToolResult("adapter", "STOP", "", 0, "Vercel Offline - Cannot Acquire Lock")

\* One internal request as callInternalApi sends it.
InternalCall(path, branch, username) ==
    [path |-> path, repo_url |-> STANDARDIZED_REPO_URL, branch |-> branch,
     user |-> username, username |-> username]

(* The adapter's state machine: SpecAdapter *)

AdapterTools == {"check_status", "post_status"}

NoArg == [isString |-> FALSE, value |-> ""]

StringArg(v) == [isString |-> TRUE, value |-> v]

BranchArgs == {NoArg} \cup { StringArg(v) : v \in {"", " ", " dev ", "dev", "main", "master"} }

UsernameArgs == {NoArg, StringArg(" u1 ")}

\* What one internal call can answer (fetch resolved).
InternalResponses ==
    { [status |-> 200, payload |-> Payload("", "", Orchestration("PROCEED", ""))],
      [status |-> 200, payload |-> Payload("", "", Orchestration("SWITCH_TASK", "FILE_CONFLICT"))],
      [status |-> 400, payload |-> Payload("", "Missing required fields", NoOrchestration)],
      [status |-> 400, payload |-> Payload("", "", Orchestration("PUSH", "You need to push your changes to advance the repo"))],
      [status |-> 404, payload |-> Payload(RefMissingText, "Internal server error", NoOrchestration)],
      [status |-> 409, payload |-> Payload("", "Conflict", NoOrchestration)],
      [status |-> 429, payload |-> Payload("quota", "GitHub API rate limit exceeded", NoOrchestration)],
      [status |-> 500, payload |-> Payload(RefMissingText, "Internal server error", NoOrchestration)],
      [status |-> 500, payload |-> Payload("Reference does not exist", "Internal server error", NoOrchestration)],
      [status |-> 500, payload |-> Payload("KV unavailable", "Internal server error", NoOrchestration)],
      [status |-> 500, payload |-> EmptyPayload],
      [status |-> 503, payload |-> Payload(RefMissingText, "", NoOrchestration)] }

AdapterCall(tool, branchArg, usernameArg) ==
    [tool |-> tool, branchArg |-> branchArg, usernameArg |-> usernameArg,
     pc |-> "first", branch |-> resolveBranch(branchArg).branch,
     calls |-> <<>>, first |-> NoResponse, response |-> NoResponse,
     threw |-> FALSE, result |-> NoResult]

InternalPath(tool) == IF tool = "check_status" THEN "/api/check_status" ELSE "/api/post_status"

AdapterInit ==
    /\ now = 0
    /\ ticks = 0
    /\ locks = [ns \in Namespaces |-> {}]
    /\ graph = [ns \in Namespaces |-> NoGraph]
    /\ repoHead = [ns \in Namespaces |-> "c1"]
    /\ last = NoRequest
    /\ activity = NoActivity
    /\ published = NoActivity
    /\ graphMeta = NoMeta
    /\ fileShas = NoShas
    /\ \E tool \in AdapterTools, b \in BranchArgs, u \in UsernameArgs :
           inflight = << AdapterCall(tool, b, u) >>

AdapterUnchanged ==
    UNCHANGED <<now, ticks, locks, graph, repoHead, last, activity, published,
                graphMeta, fileShas>>

\* The first callInternalApi: it resolves with a response or rejects
\* (network failure, or the 5 s abort).
AdapterFirst ==
    /\ Len(inflight) = 1
    /\ inflight[1].pc = "first"
    /\ LET c    == inflight[1]
           sent == Append(c.calls, InternalCall(InternalPath(c.tool), c.branch,
                                                normalizeUsername(c.usernameArg)))
       IN  \/ \E r \in InternalResponses :
                 inflight' = << [c EXCEPT
                     !.calls = sent, !.first = r, !.response = r,
                     !.pc = IF /\ ~resolveBranch(c.branchArg).wasProvided
                               /\ shouldRetryOnMissingBranchReference(r)
                               /\ c.branch # FALLBACK_MCP_BRANCH
                            THEN "second" ELSE "map"] >>
           \/ inflight' = << [c EXCEPT !.calls = sent, !.threw = TRUE, !.pc = "map"] >>
    /\ AdapterUnchanged

\* The retry with the fallback branch.
AdapterSecond ==
    /\ Len(inflight) = 1
    /\ inflight[1].pc = "second"
    /\ LET c    == inflight[1]
           sent == Append(c.calls, InternalCall(InternalPath(c.tool), FALLBACK_MCP_BRANCH,
                                                normalizeUsername(c.usernameArg)))
       IN  \/ \E r \in InternalResponses :
                 inflight' = << [c EXCEPT !.calls = sent, !.branch = FALLBACK_MCP_BRANCH,
                                          !.response = r, !.pc = "map"] >>
           \/ inflight' = << [c EXCEPT !.calls = sent, !.branch = FALLBACK_MCP_BRANCH,
                                       !.threw = TRUE, !.pc = "map"] >>
    /\ AdapterUnchanged

\* The mapping of the final response, or of the rejection (catch).
AdapterMap ==
    /\ Len(inflight) = 1
    /\ inflight[1].pc = "map"
    /\ LET c == inflight[1]
       IN  inflight' = << [c EXCEPT
               !.pc = "done",
               !.result = IF c.tool = "check_status"
                          THEN IF c.threw THEN checkStatusOffline
                               ELSE mapCheckStatusResponse(c.response)
                          ELSE IF c.threw THEN postStatusOffline
                               ELSE mapPostStatusResponse(c.response)] >>
    /\ AdapterUnchanged

AdapterNext ==
    \/ AdapterFirst
    \/ AdapterSecond
    \/ AdapterMap

SpecAdapter == AdapterInit /\ [][AdapterNext]_vars

\* The adapter calls that have returned their tool result.
AdapterDone == { i \in DOMAIN inflight : inflight[i].pc = "done" }

\* The branch argument carries a branch name.
BranchSupplied(arg) == arg.isString /\ arg.value \notin {"", " "}

\* The branch-not-found signal: HTTP 404 or 500 whose error text reports the
\* missing git reference.
BranchNotFound(r) ==
    /\ r.status \in {404, 500}
    /\ extractErrorMessage(r.payload, "") \in {RefMissingText, "Reference does not exist"}

FailedFinal(c) == c.threw \/ c.response.status >= 400

----------------------------------------------------------------------------
(* A release in flight together with a second request of the same user on  *)
(* the same paths: another release, or a re-acquire.  Each handler reaches *)
(* the store once, when its script runs, in either order.                  *)

ReleaseCall(hdr, fp, status, h, t) ==
    [ headers |-> hdr, filePaths |-> fp, status |-> status, receivedAt |-> t,
      start |-> h, done |-> FALSE, resp |-> Response(0, FALSE, None, None, None, None) ]

ReleaseInit ==
    /\ now \in RaceStartTimes
    /\ ticks = 0
    /\ \E h \in RaceStores : locks = [ns \in Namespaces |-> h]
    /\ graph = [ns \in Namespaces |-> NoGraph]
    /\ repoHead = [ns \in Namespaces |-> "c1"]
    /\ last = NoRequest
    /\ activity = NoActivity
    /\ published = NoActivity
    /\ graphMeta = NoMeta
    /\ fileShas = NoShas
    /\ \E hdr \in PostHeaderCombos, fp \in FilePathSeqs(LockPaths) \ {<<>>},
          second \in {"OPEN", "WRITING"} :
          inflight = << ReleaseCall(hdr, fp, "OPEN", locks["main"], now),
                        ReleaseCall(hdr, fp, second, locks["main"], now) >>

\* The handler of an in-flight request runs: OPEN after a push, or WRITING on
\* the current head.
ReleaseExec ==
    \E i \in DOMAIN inflight :
        /\ ~inflight[i].done
        /\ LET c   == inflight[i]
               req == [ headers |-> c.headers, filePaths |-> c.filePaths,
                        status |-> c.status, agentHead |-> "c1",
                        newRepoHead |-> IF c.status = "OPEN" THEN "c2" ELSE None,
                        message |-> "work" ]
               out == postStatus(locks["main"], getCached(graph["main"]),
                                 repoHead["main"], req, now, TRUE)
           IN  /\ locks' = [locks EXCEPT !["main"] = out.store]
               /\ inflight' = [inflight EXCEPT ![i].done = TRUE, ![i].resp = out.resp]
               /\ last' = [ Handled(c.status, "main", c.headers, PostUserId(c.headers),
                                    c.filePaths, req.agentHead, out.resp, locks')
                            EXCEPT !.newRepoHead = req.newRepoHead ]
        /\ UNCHANGED <<now, ticks, graph, repoHead, activity, published, graphMeta, fileShas>>

ReleaseNext == RaceTick \/ ReleaseExec

SpecRelease == ReleaseInit /\ [][ReleaseNext]_vars

\* Both requests of the pair have been answered.
PairDone == Len(inflight) = 2 /\ inflight[1].done /\ inflight[2].done

\* The caller's records on the requested paths.
Mine == { r \in locks["main"] :
            /\ r.file_path \in Range(inflight[1].filePaths)
            /\ r.user_id = PostUserId(inflight[1].headers) }

\* C29: release is idempotent (a second release of the same paths by the same
\* user changes nothing and still succeeds), and a release racing a
\* re-acquire of the same paths by the same user ends as one of the two
\* sequential orders: the requested paths hold none of the user's records, or
\* each holds a complete record of the user written by the one acquire; no
\* other user's record is added, changed or removed, and the user's records
\* on other paths stay.
C29_ReleaseIsIdempotentAndRaceSafe ==
    PairDone =>
        LET a == inflight[1]
            b == inflight[2]
            u == PostUserId(a.headers)
            P == Range(a.filePaths)
            outside == { r \in a.start : r.file_path \notin P }
        IN  /\ a.resp.success
            /\ b.status = "OPEN" =>
                   /\ b.resp.success
                   /\ Mine = {}
                   /\ last.displaced["main"] = {} /\ last.created["main"] = {}
            /\ \/ Mine = {}
               \/ /\ b.status = "WRITING" /\ b.resp.success /\ last.op = "WRITING"
                  /\ { r.file_path : r \in Mine } = P
                  /\ \E t \in b.receivedAt .. now :
                        \A r \in Mine :
                            r = LockRecord(r.file_path,
                                           [ userId |-> u, userName |-> PostUserName(a.headers),
                                             status |-> "WRITING", agentHead |-> "c1",
                                             message |-> "work" ], t)
            /\ (last.op = "WRITING" /\ last.resp.success) => Mine # {}
            /\ last.op = "OPEN" => Mine = {}
            /\ \A r \in outside : r \in locks["main"]
            /\ \A r \in locks["main"] : r.user_id # u => r \in a.start
            /\ \A r \in a.start :
                   (r.user_id # u /\ IsActive(r, now)) => r \in locks["main"]

\* C29 witness: the user held both requested paths, the release ran first
\* and the re-acquire second: both paths carry the record of the re-acquire.
C29_Witness ==
    /\ PairDone
    /\ inflight[2].status = "WRITING"
    /\ last.op = "WRITING" /\ last.resp.success
    /\ Len(inflight[1].filePaths) = 2
    /\ \A f \in Range(inflight[1].filePaths) :
          \E r \in inflight[1].start : r.file_path = f /\ r.user_id = PostUserId(inflight[1].headers)
    /\ Cardinality(Mine) = 2
    /\ \A r \in Mine : r.timestamp > inflight[1].receivedAt

----------------------------------------------------------------------------
(* Namespace keys.  A request names its repository by a raw repo_url; each *)
(* store derives its KV key from it.  Here the stores are indexed by those *)
(* keys: locks by LocksKey, graph by getKeys(...).graph, activity by       *)
(* getActivityKey.                                                         *)

\* A repository URL: host, owner and repository name, and what trails them.
RepoUrl(host, owner, repo, tail) ==
    [host |-> host, owner |-> owner, repo |-> repo, tail |-> tail]

\* toLowerCase on the URL parts of the model.
LowerPart(s) ==
    CASE s = "GitHub.com" -> "github.com"
      [] s = "O"          -> "o"
      [] s = "R"          -> "r"
      [] OTHER            -> s

\* normalizeRepoUrl: lower-cases host, owner and repository, and strips a
\* trailing ".git" and trailing slashes.
normalizeRepoUrl(url) ==
    RepoUrl(LowerPart(url.host), LowerPart(url.owner), LowerPart(url.repo), "")

\* The repo_url values requests carry: three spellings of one repository.
RepoUrls ==
    { RepoUrl("github.com", "o", "r", ""),
      RepoUrl("GitHub.com", "O", "R", ".git"),
      RepoUrl("github.com", "o", "r", "/") }

KeyBranch == "main"

\* locks:<normalizedRepoURL>:<branch>
LocksKey(repoUrl, branch) == <<"locks", normalizeRepoUrl(repoUrl), branch>>

\* GraphService.getKeys: the keys are built from the constructor's repoUrl.
getKeys(repoUrl, branch) ==
    [ graph    |-> <<"graph", repoUrl, branch>>,
      meta     |-> <<"graph:meta", repoUrl, branch>>,
      fileShas |-> <<"graph:file_shas", repoUrl, branch>> ]

\* activity:<normalizedRepoUrl>:<branch.trim() || 'main'>
getActivityKey(repoUrl, branch) ==
    <<"activity", normalizeRepoUrl(repoUrl), IF Trim(branch) # "" THEN Trim(branch) ELSE "main">>

LockKeySet == { LocksKey(u, KeyBranch) : u \in RepoUrls }

GraphKeySet == { getKeys(u, KeyBranch).graph : u \in RepoUrls }

ActivityKeySet == { getActivityKey(u, KeyBranch) : u \in RepoUrls }

\* The graphs a build may store.
KeyGraphs ==
    { [present |-> TRUE, edges |-> << [source |-> "a.ts", target |-> "b.ts"] >>],
      [present |-> TRUE, edges |-> << [source |-> "b.ts", target |-> "a.ts"] >>] }

\* The post_status requests tried: u1 or u2 takes or releases one path.
KeyPostRequests ==
    { [ headers |-> h, filePaths |-> <<f>>, status |-> st, agentHead |-> "c1",
        newRepoHead |-> IF st = "OPEN" THEN "c2" ELSE None, message |-> "work" ] :
        h \in { c \in PostHeaderCombos : c.user # None }, f \in LockPaths,
        st \in {"WRITING", "OPEN"} }

\* The check_status requests tried: u1 asks about one path.
KeyCheckRequests ==
    { [ headers |-> [user |-> "u1", username |-> None], filePaths |-> <<f>>,
        agentHead |-> "c1" ] : f \in LockPaths }

KeyHandled(op, repoUrl, req, resp) ==
    [ op |-> op, repoUrl |-> repoUrl, req |-> req, at |-> now, resp |-> resp ]

KeysInit ==
    /\ now = 0
    /\ ticks = 0
    /\ locks = [k \in LockKeySet |-> {}]
    /\ graph = [k \in GraphKeySet |-> NoGraph]
    /\ repoHead = [ns \in Namespaces |-> "c1"]
    /\ last = KeyHandled(None, RepoUrl("", "", "", ""),
                         [ headers |-> NoHeaders, filePaths |-> <<>>, agentHead |-> None ],
                         Response(0, FALSE, None, None, None, None))
    /\ activity = [k \in ActivityKeySet |-> <<>>]
    /\ published = NoActivity
    /\ graphMeta = NoMeta
    /\ fileShas = NoShas
    /\ inflight = <<>>

\* GraphService(repoUrl, branch).generate stores a graph.
KeysGenerate ==
    \E u \in RepoUrls, g \in KeyGraphs :
        /\ graph' = [graph EXCEPT ![getKeys(u, KeyBranch).graph] = g]
        /\ UNCHANGED <<now, ticks, locks, repoHead, last, inflight, activity, published,
                       graphMeta, fileShas>>

\* POST /api/post_status with body.repo_url = u.
KeysPostStatus ==
    \E u \in RepoUrls, req \in KeyPostRequests :
        LET out == postStatus(locks[LocksKey(u, KeyBranch)],
                              getCached(graph[getKeys(u, KeyBranch).graph]),
                              repoHead["main"], req, now, TRUE)
        IN  /\ locks' = [locks EXCEPT ![LocksKey(u, KeyBranch)] = out.store]
            /\ last' = KeyHandled(req.status, u,
                                  [ headers |-> req.headers, filePaths |-> req.filePaths,
                                    agentHead |-> req.agentHead ], out.resp)
            /\ UNCHANGED <<now, ticks, graph, repoHead, inflight, activity, published,
                           graphMeta, fileShas>>

\* POST /api/check_status with body.repo_url = u.
KeysCheckStatus ==
    \E u \in RepoUrls, req \in KeyCheckRequests :
        /\ last' = KeyHandled("CHECK", u, req,
                              checkStatus(locks[LocksKey(u, KeyBranch)],
                                          getCached(graph[getKeys(u, KeyBranch).graph]),
                                          repoHead["main"], req, now))
        /\ UNCHANGED <<now, ticks, locks, graph, repoHead, inflight, activity, published,
                       graphMeta, fileShas>>

\* publishActivityEvents with input.repoUrl = u, on a list that is still short.
KeysPublish ==
    \E u \in RepoUrls :
        LET key   == getActivityKey(u, KeyBranch)
            input == [ filePaths |-> <<"a.ts">>, userId |-> "u1", userName |-> "u1",
                       status |-> "WRITING", message |-> "work" ]
        IN  /\ Len(activity[key]) < MaxFilePaths
            /\ activity' = [activity EXCEPT
                   ![key] = Take(LPush(@, Payloads(input, now)), MAX_ACTIVITY_RETENTION)]
            /\ UNCHANGED <<now, ticks, locks, graph, repoHead, last, inflight, published,
                           graphMeta, fileShas>>

KeysNext ==
    \/ KeysGenerate
    \/ KeysPostStatus
    \/ KeysCheckStatus
    \/ KeysPublish

SpecKeys == KeysInit /\ [][KeysNext]_vars

\* Two repo_url values name the same repository.
SameRepo(a, b) == normalizeRepoUrl(a) = normalizeRepoUrl(b)

\* C30: all coordination state is keyed by the normalized namespace: two
\* repo_url values that normalize to the same canonical URL, with the same
\* branch, see the same locks, the same cached graph and the same activity
\* list, and a check_status answer (its neighbor locks included) does not
\* depend on which of the two spellings the request used.
C30_StateKeyedByNormalizedNamespace ==
    \A a, b \in RepoUrls :
        SameRepo(a, b) =>
            /\ locks[LocksKey(a, KeyBranch)] = locks[LocksKey(b, KeyBranch)]
            /\ activity[getActivityKey(a, KeyBranch)] = activity[getActivityKey(b, KeyBranch)]
            /\ getCached(graph[getKeys(a, KeyBranch).graph])
                   = getCached(graph[getKeys(b, KeyBranch).graph])
            /\ (last.op = "CHECK" /\ last.repoUrl = a) =>
                   last.resp = checkStatus(locks[LocksKey(b, KeyBranch)],
                                           getCached(graph[getKeys(b, KeyBranch).graph]),
                                           repoHead["main"], last.req, last.at)

----------------------------------------------------------------------------
(* Further properties of the lock registry *)

\* C31: an acquire by the current owner of an active lock succeeds and
\* refreshes it: an acquire that no other user's active lock blocks succeeds,
\* and after a successful acquire at time t every requested path's record
\* has timestamp = t and expiry = t + LOCK_TTL_MS, whether the path was free
\* or already held by the caller.
C31_ReacquireRefreshes ==
    AcquireRan =>
        LET ns == last.ns
            fp == last.filePaths
            u  == last.userId
        IN  /\ BlockedAt(Before(ns), fp, u, last.at) = {} => last.resp.success
            /\ last.resp.success =>
                   \A f \in Range(fp) :
                       \E r \in locks[ns] :
                           /\ r.file_path = f
                           /\ r.user_id = u
                           /\ r.timestamp = last.at
                           /\ r.expiry = last.at + LOCK_TTL_MS

\* C31 witness: the caller re-acquired a path on which it held an active
\* lock taken earlier; the old record was replaced.
C31_Witness ==
    /\ AcquireRan /\ last.resp.success
    /\ \E r \in last.displaced[last.ns] :
          /\ r.user_id = last.userId
          /\ r.file_path \in Range(last.filePaths)
          /\ r.timestamp < last.at
          /\ last.at < r.expiry

----------------------------------------------------------------------------
(* One user acquires paths and then releases them, nothing else touching   *)
(* the namespace in between: a WRITING request on the current head         *)
(* followed by an OPEN request after a push.                               *)

PairCall(hdr, fp, h, t) ==
    [ headers |-> hdr, filePaths |-> fp, receivedAt |-> t, start |-> h,
      pc |-> "acquire", done |-> FALSE, acquiredAt |-> 0,
      acquired |-> Response(0, FALSE, None, None, None, None),
      resp |-> Response(0, FALSE, None, None, None, None) ]

PairInit ==
    /\ now \in RaceStartTimes
    /\ ticks = 0
    /\ \E h \in RaceStores : locks = [ns \in Namespaces |-> h]
    /\ graph = [ns \in Namespaces |-> NoGraph]
    /\ repoHead = [ns \in Namespaces |-> "c1"]
    /\ last = NoRequest
    /\ activity = NoActivity
    /\ published = NoActivity
    /\ graphMeta = NoMeta
    /\ fileShas = NoShas
    /\ \E hdr \in PostHeaderCombos, fp \in FilePathSeqs(LockPaths) \ {<<>>} :
          inflight = << PairCall(hdr, fp, locks["main"], now) >>

PairRequest(c, status) ==
    [ headers |-> c.headers, filePaths |-> c.filePaths, status |-> status,
      agentHead |-> "c1", newRepoHead |-> IF status = "OPEN" THEN "c2" ELSE None,
      message |-> "work" ]

\* POST /api/post_status, WRITING.
PairAcquire ==
    /\ inflight[1].pc = "acquire"
    /\ LET c   == inflight[1]
           req == PairRequest(c, "WRITING")
           out == postStatus(locks["main"], getCached(graph["main"]),
                             repoHead["main"], req, now, TRUE)
       IN  /\ locks' = [locks EXCEPT !["main"] = out.store]
           /\ inflight' = << [c EXCEPT !.pc = "release", !.acquired = out.resp,
                                       !.acquiredAt = now] >>
           /\ last' = Handled("WRITING", "main", c.headers, PostUserId(c.headers),
                              c.filePaths, req.agentHead, out.resp, locks')
    /\ UNCHANGED <<now, ticks, graph, repoHead, activity, published, graphMeta, fileShas>>

\* POST /api/post_status, OPEN, by the same user on the same paths.
PairRelease ==
    /\ inflight[1].pc = "release"
    /\ LET c   == inflight[1]
           req == PairRequest(c, "OPEN")
           out == postStatus(locks["main"], getCached(graph["main"]),
                             repoHead["main"], req, now, TRUE)
       IN  /\ locks' = [locks EXCEPT !["main"] = out.store]
           /\ inflight' = << [c EXCEPT !.pc = "done", !.done = TRUE, !.resp = out.resp] >>
           /\ last' = [ Handled("OPEN", "main", c.headers, PostUserId(c.headers),
                                c.filePaths, req.agentHead, out.resp, locks')
                        EXCEPT !.newRepoHead = req.newRepoHead ]
    /\ UNCHANGED <<now, ticks, graph, repoHead, activity, published, graphMeta, fileShas>>

PairNext == RaceTick \/ PairAcquire \/ PairRelease

SpecPair == PairInit /\ [][PairNext]_vars

\* The pair ran to its end and its acquire succeeded.
PairRan == inflight[1].pc = "done" /\ inflight[1].acquired.success

\* The requested paths held nothing the acquire would overwrite: no record
\* of the caller and no expired record.
PairPathsClear ==
    \A r \in inflight[1].start :
        r.file_path \in Range(inflight[1].filePaths) =>
            /\ r.user_id # PostUserId(inflight[1].headers)
            /\ IsActive(r, inflight[1].acquiredAt)

\* C32 as stated: for every lock state, acquire(p, U) followed by
\* release(p, U) leaves the namespace's lock state as it was before the pair.
C32_AcquireReleaseRoundTripAsStated ==
    PairRan => locks["main"] = inflight[1].start

\* U held no active lock on a requested path when the acquire ran.
PairNotHeld ==
    \A r \in inflight[1].start :
        (r.file_path \in Range(inflight[1].filePaths)
            /\ r.user_id = PostUserId(inflight[1].headers)) =>
                ~IsActive(r, inflight[1].acquiredAt)

\* C32 (amended): for every lock state in which U holds no active lock on
\* the requested paths, acquire(p, U) followed by release(p, U) leaves the
\* namespace's active locks as they were before the pair; the stored records
\* are the same too when no requested path held a record of U or an expired
\* record.
C32_AcquireReleaseRoundTrip ==
    PairRan =>
        /\ PairNotHeld =>
               getLocks(locks["main"], now) = getLocks(inflight[1].start, now)
        /\ PairPathsClear => locks["main"] = inflight[1].start

\* C32 witness: the pair ran on a free path of a namespace whose other path
\* is locked; the acquire wrote its record and the release removed it.
C32_Witness ==
    /\ PairRan /\ PairPathsClear
    /\ Len(inflight[1].filePaths) = 1
    /\ inflight[1].start # {}
    /\ inflight[1].acquired.locks # {}
    /\ locks["main"] = inflight[1].start

----------------------------------------------------------------------------
(* Cleanup among the other operations of the registry *)

\* The cleanup job just ran.
CleanupRan == last.op = "CLEANUP"

----------------------------------------------------------------------------
(* Malformed post_status requests *)

\* The latest request was a post_status request that is malformed: its
\* file_paths is empty, or it is WRITING or READING without agent_head.
Malformed ==
    /\ last.op \in Statuses
    /\ \/ last.filePaths = <<>>
       \/ last.op \in {"WRITING", "READING"} /\ last.agentHead = None

\* C34: a malformed post_status request is answered HTTP 400 without an
\* orchestration, and no lock or activity state changes.
C34_MalformedIsRejected ==
    Malformed =>
        /\ last.resp.http = 400
        /\ last.resp.action = None
        /\ last.created = NoChange /\ last.displaced = NoChange
        /\ activity = last.feed

----------------------------------------------------------------------------
(* Acquire failures other than a conflict *)

\* The WRITING requests that reach the registry.
FaultRequests ==
    { r \in PostRequests : r.status = "WRITING" /\ r.agentHead = "c1" /\ r.filePaths # <<>> }

\* One post_status WRITING request, handled to completion; the acquire
\* script runs or fails inside the registry.
FaultStatus ==
    \E ns \in Namespaces, req \in FaultRequests, scriptOk \in BOOLEAN :
        LET out == postStatus(locks[ns], getCached(graph[ns]), repoHead[ns], req, now,
                              scriptOk)
        IN  /\ locks' = [locks EXCEPT ![ns] = out.store]
            /\ last' = [ Handled(req.status, ns, req.headers, PostUserId(req.headers),
                                 req.filePaths, req.agentHead, out.resp, locks')
                         EXCEPT !.releaseFailed = ~scriptOk ]
            /\ UNCHANGED <<now, ticks, graph, repoHead, inflight, activity, published, graphMeta, fileShas>>

FaultNext == Tick \/ FaultStatus

SpecFault == Init /\ [][FaultNext]_vars

\* The latest request was a WRITING request whose acquire failed without
\* any conflict.
AcquireFaulted == last.op = "WRITING" /\ last.releaseFailed

\* C37: an acquire failure other than a conflict is answered HTTP 200,
\* success false, SWITCH_TASK, and the reason it carries is the reported
\* failure reason alone, with no placeholder for a file or a user.
C37_FailureReasonWithoutPlaceholders ==
    AcquireFaulted =>
        /\ last.resp.http = 200
        /\ ~last.resp.success
        /\ last.resp.action = "SWITCH_TASK"
        /\ last.resp.reason = "INTERNAL_ERROR"
        /\ last.resp.file # "undefined"
        /\ last.resp.user # "undefined"

----------------------------------------------------------------------------
(* Incremental builds *)

\* The call built incrementally from coherent keys: the graph blob it read
\* is of another commit than the head it fetched, and the file-SHA hash it
\* read is the hash of that blob's commit.
BuiltIncrementally(c) ==
    /\ c.pc \in {"write", "done"}
    /\ c.existing.present
    /\ c.existing.version # c.currentHead
    /\ c.storedShas = ShaMap(c.existing.version)

\* The tree entries of the call's head whose stored sha differs.
ChangedEntries(c) ==
    { f \in Range(Tree(c.currentHead)) :
        \E x \in c.storedShas : x.path = f.path /\ x.sha # f.sha }

\* The imports of a tree entry that resolve in the tree of commit head.
ResolvedImports(f, head) ==
    { m \in ImportsOf(f.sha) : Resolve(m, { x.path : x \in Range(Tree(head)) }) }

\* C35: after an incremental build no node and no edge of the graph refers
\* to a deleted file, every changed file keeps exactly one node whose size
\* is the size of the new tree entry, and the outgoing edges of a changed
\* file are exactly the resolved imports of its new content.
C35_IncrementalBuildIsExact ==
    \A i \in DOMAIN inflight :
        LET c == inflight[i]
            g == c.plan.graph
        IN  BuiltIncrementally(c) =>
                /\ \A n \in Range(g.nodes) : n.id \notin c.plan.deleted
                /\ \A e \in Range(g.edges) :
                       e.source \notin c.plan.deleted /\ e.target \notin c.plan.deleted
                /\ \A f \in ChangedEntries(c) :
                       /\ { n \in Range(g.nodes) : n.id = f.path }
                              = { [id |-> f.path, size |-> f.size] }
                       /\ { e.target : e \in { x \in Range(g.edges) : x.source = f.path } }
                              = ResolvedImports(f, c.currentHead)

----------------------------------------------------------------------------
(* A generate call after the concurrent ones *)

\* Once every call has returned, one more generate call arrives, without
\* force, and runs with no other call beside it.
GenAgain ==
    /\ \A i \in DOMAIN inflight : inflight[i].pc = "done" /\ ~inflight[i].alone
    /\ inflight' = [inflight EXCEPT
                      ![1] = [GenerateCall(inflight[1].proc, FALSE) EXCEPT !.alone = TRUE]]
    /\ UNCHANGED <<now, ticks, locks, graph, repoHead, last, activity, published,
                   graphMeta, fileShas>>

HealNext == GraphNext \/ GenAgain

SpecHeal == GraphInit /\ [][HealNext]_vars

\* The files and the import edges of a graph blob.
Files(g) == { n.id : n \in Range(g.nodes) }

Imports(g) == Range(g.edges)

\* A full rebuild on the tree of commit head.
FullRebuild(head) == Build(head, {}, NoGraph, now).graph

\* C36: whatever the earlier concurrent builds left in the graph keys, the
\* next generate call that runs alone, without force, leaves a stored graph
\* with the files and the import edges of a full rebuild at the head it
\* fetched.
C36_NextBuildHeals ==
    \A i \in DOMAIN inflight :
        LET c == inflight[i]
        IN  (c.alone /\ c.pc = "done") =>
                /\ Files(graph["main"]) = Files(FullRebuild(c.currentHead))
                /\ Imports(graph["main"]) = Imports(FullRebuild(c.currentHead))

----------------------------------------------------------------------------
(* Well-formedness of the stored graph *)

\* C39: in every stored graph the node ids are unique, no (source, target)
\* pair occurs on two edges, and both endpoints of every edge are nodes of
\* the graph.
C39_StoredGraphWellFormed ==
    \A ns \in Namespaces :
        LET g == graph[ns]
        IN  g.present =>
                /\ \A i, j \in DOMAIN g.nodes : g.nodes[i].id = g.nodes[j].id => i = j
                /\ \A i, j \in DOMAIN g.edges :
                       (/\ g.edges[i].source = g.edges[j].source
                        /\ g.edges[i].target = g.edges[j].target) => i = j
                /\ \A e \in Range(g.edges) : {e.source, e.target} \subseteq Files(g)

----------------------------------------------------------------------------
(* Builds one after the other over a sequence of commits *)

\* The commits the branch passes through, oldest first; a push may carry
\* several commits.
CommitOrder == <<"c1", "c2", "c3">>

\* The paths whose content fetch may throw.
FetchFailing == {"a.ts"}

RefineInit ==
    /\ now = 1
    /\ ticks = 0
    /\ locks = [ns \in Namespaces |-> {}]
    /\ repoHead = [ns \in Namespaces |-> "c1"]
    /\ last = NoRequest
    /\ activity = NoActivity
    /\ published = NoActivity
    /\ graph = [ns \in Namespaces |-> NoGraph]
    /\ graphMeta = NoMeta
    /\ fileShas = NoShas
    /\ inflight = <<>>

\* The branch moves to a later commit.
HeadAdvances ==
    \E i, j \in DOMAIN CommitOrder :
        /\ i < j
        /\ repoHead["main"] = CommitOrder[i]
        /\ repoHead' = [repoHead EXCEPT !["main"] = CommitOrder[j]]
        /\ UNCHANGED <<now, ticks, locks, graph, last, inflight, activity, published,
                       graphMeta, fileShas>>

\* One generate call without force, from the head fetch to its return,
\* with no other call beside it; failed holds the paths whose content fetch
\* throws in this call.
GenerateWith(failed) ==
    LET currentHead == repoHead["main"]
        cached      == getCached(graph["main"])
        call        == [GenerateCall(1, FALSE) EXCEPT !.currentHead = currentHead,
                                                      !.pc = "done",
                                                      !.alone = TRUE]
    IN  IF graphMeta["main"] = currentHead /\ cached.present
        THEN /\ inflight' = <<[call EXCEPT !.result = cached]>>
             /\ UNCHANGED <<now, ticks, locks, graph, repoHead, last, activity, published,
                            graphMeta, fileShas>>
        ELSE LET plan == BuildWith(currentHead, fileShas["main"], graph["main"], now, failed)
             IN  /\ graph' = [graph EXCEPT !["main"] = plan.graph]
                 /\ graphMeta' = [graphMeta EXCEPT !["main"] = currentHead]
                 /\ fileShas' = [fileShas EXCEPT !["main"] =
                                   PipelineShas(@, plan.deleted, plan.newShas)]
                 /\ inflight' = <<[call EXCEPT !.storedShas = fileShas["main"],
                                               !.existing = graph["main"],
                                               !.plan = plan,
                                               !.result = plan.graph,
                                               !.failed = failed]>>
                 /\ UNCHANGED <<now, ticks, locks, repoHead, last, activity, published>>

Generate == \E failed \in SUBSET FetchFailing : GenerateWith(failed)

RefineNext == HeadAdvances \/ Generate \/ Tick

SpecRefine == RefineInit /\ [][RefineNext]_vars

\* C38: after every generate call of a sequence of calls that run one after
\* the other, each at the head of its time, a call whose own content
\* fetches all succeeded leaves a stored graph with the files and the import
\* edges of a full rebuild at the head it fetched.
C38_IncrementalRefinesFull ==
    \A i \in DOMAIN inflight :
        LET c == inflight[i]
        IN  (c.pc = "done" /\ c.failed = {}) =>
                /\ Files(graph["main"]) = Files(FullRebuild(c.currentHead))
                /\ Imports(graph["main"]) = Imports(FullRebuild(c.currentHead))

----------------------------------------------------------------------------
(* post_status tool calls through the adapter into the handler *)

MaxToolCalls == 2

\* The branches a tool call can name; "dev" does not exist on GitHub.
ToolBranches == {DEFAULT_MCP_BRANCH, FALLBACK_MCP_BRANCH, "dev"}

\* The arguments of a post_status tool call.
ToolArgs ==
    [ branchArg   : {NoArg, StringArg("main"), StringArg("dev")},
      usernameArg : UsernameArgs,
      status      : {"WRITING", "OPEN"},
      filePaths   : {<<"a.ts">>, <<"a.ts", "b.ts">>} ]

\* NextResponse.json(...) as readResponsePayload parses it.
ToInternalResponse(resp) ==
    [ status  |-> resp.http,
      payload |-> Payload("", "",
                          IF resp.action = None THEN NoOrchestration
                          ELSE Orchestration(resp.action,
                                             IF resp.reason = None THEN "" ELSE resp.reason)) ]

\* A handler that runs its status branch before it fetches the head.
postStatusInternalLocksFirst(h, head, req, t) ==
    LET out == postStatus(h, NoGraph, req.agentHead, req, t, TRUE)
    IN  IF head = None
        THEN [ response |-> [ status  |-> 500,
                              payload |-> Payload(RefMissingText, "Internal server error",
                                                  NoOrchestration) ],
               store    |-> out.store ]
        ELSE [ response |-> ToInternalResponse(out.resp), store |-> out.store ]

\* POST /api/post_status on one namespace, as the adapter sees it: the
\* request is well-formed, the head fetch comes before the status branch
\* and throws when the branch does not exist (head = None); the catch
\* answers 500 with the error's message as details.
postStatusInternal(h, head, req, t) ==
    IF head = None
    THEN [ response |-> [ status  |-> 500,
                          payload |-> Payload(RefMissingText, "Internal server error",
                                              NoOrchestration) ],
           store    |-> h ]
    ELSE LET out == postStatus(h, NoGraph, head, req, t, TRUE)
         IN  [ response |-> ToInternalResponse(out.resp), store |-> out.store ]

\* One post_status tool call: its arguments, where it stands, the internal
\* calls it sent, the lock and activity state when it arrived and after its
\* first internal call, and what it received.
ToolCall(args) ==
    [ args |-> args, pc |-> "first", branch |-> resolveBranch(args.branchArg).branch,
      calls |-> <<>>, before |-> locks, feedBefore |-> activity,
      afterFirst |-> locks, feedAfterFirst |-> activity,
      response |-> NoResponse, threw |-> FALSE, result |-> NoResult ]

\* The request body and headers callInternalApi sends for the call.
ToolRequest(c) ==
    LET name == normalizeUsername(c.args.usernameArg)
    IN  [ headers     |-> [user |-> name, username |-> name],
          filePaths   |-> c.args.filePaths,
          status      |-> c.args.status,
          agentHead   |-> "c1",
          newRepoHead |-> None,
          message     |-> "m" ]

ToolInit ==
    /\ now = 0
    /\ ticks = 0
    /\ locks = [b \in ToolBranches |-> {}]
    /\ graph = [ns \in Namespaces |-> NoGraph]
    /\ repoHead \in { h \in [ToolBranches -> {"c1", None}] : h["dev"] = None }
    /\ last = NoRequest
    /\ activity = [b \in ToolBranches |-> <<>>]
    /\ published = NoActivity
    /\ graphMeta = NoMeta
    /\ fileShas = NoShas
    /\ inflight = <<>>

ToolUnchanged ==
    UNCHANGED <<now, ticks, graph, repoHead, last, activity, published, graphMeta, fileShas>>

\* A post_status tool call arrives once the previous one has returned.
ToolArrive ==
    /\ Len(inflight) < MaxToolCalls
    /\ \A i \in DOMAIN inflight : inflight[i].pc = "done"
    /\ \E args \in ToolArgs : inflight' = Append(inflight, ToolCall(args))
    /\ UNCHANGED locks
    /\ ToolUnchanged

\* One internal call of the latest tool call on branch b, handled to
\* completion; the adapter receives the response or, when the 5 s abort
\* fires first, a rejection. After the first response the adapter decides
\* whether to retry.
ToolInternal(b) ==
    LET k    == Len(inflight)
        c    == inflight[k]
        out  == postStatusInternal(locks[b], repoHead[b], ToolRequest(c), now)
        sent == Append(c.calls, InternalCall("/api/post_status", b,
                                             normalizeUsername(c.args.usernameArg)))
        retry == /\ Len(sent) = 1
                 /\ ~resolveBranch(c.args.branchArg).wasProvided
                 /\ shouldRetryOnMissingBranchReference(out.response)
                 /\ b # FALLBACK_MCP_BRANCH
        seen == [c EXCEPT !.calls = sent, !.branch = b,
                          !.afterFirst = IF Len(sent) = 1 THEN locks' ELSE @,
                          !.feedAfterFirst = IF Len(sent) = 1 THEN activity' ELSE @]
    IN  /\ locks' = [locks EXCEPT ![b] = out.store]
        /\ ToolUnchanged
        /\ \/ inflight' = [inflight EXCEPT ![k] =
                              [seen EXCEPT !.response = out.response,
                                           !.pc = IF retry THEN "second" ELSE "map"]]
           \/ inflight' = [inflight EXCEPT ![k] =
                              [seen EXCEPT !.threw = TRUE, !.pc = "map"]]

\* The first callInternalApi, with the resolved branch.
ToolFirst ==
    /\ inflight # <<>>
    /\ inflight[Len(inflight)].pc = "first"
    /\ ToolInternal(inflight[Len(inflight)].branch)

\* The retry with the fallback branch.
ToolSecond ==
    /\ inflight # <<>>
    /\ inflight[Len(inflight)].pc = "second"
    /\ ToolInternal(FALLBACK_MCP_BRANCH)

\* The mapping of the final response, or of the rejection (catch).
ToolMap ==
    /\ inflight # <<>>
    /\ inflight[Len(inflight)].pc = "map"
    /\ LET k == Len(inflight)
           c == inflight[k]
       IN  inflight' = [inflight EXCEPT ![k] =
               [c EXCEPT !.pc = "done",
                         !.result = IF c.threw THEN postStatusOffline
                                    ELSE mapPostStatusResponse(c.response)]]
    /\ UNCHANGED locks
    /\ ToolUnchanged

ToolNext ==
    \/ ToolArrive
    \/ ToolFirst
    \/ ToolSecond
    \/ ToolMap

SpecTool == ToolInit /\ [][ToolNext]_vars

\* The branches whose lock hash differs between two lock states.
ChangedBranches(before, after) == { b \in ToolBranches : before[b] # after[b] }

\* The tool call retried on the fallback branch.
Retried(c) == Len(c.calls) = 2

\* The lock state the call left: the current one for the latest call, the
\* one the next call found for an earlier call.
LeftBy(i) == IF i = Len(inflight) THEN locks ELSE inflight[i + 1].before

\* C40: one post_status tool call changes the locks of at most one
\* namespace and appends no activity elsewhere: when the adapter retries on
\* the fallback branch, the first internal call has changed no lock and
\* appended no activity event.
C40_ToolCallChangesOneNamespace ==
    \A i \in DOMAIN inflight :
        LET c == inflight[i]
        IN  /\ Cardinality(ChangedBranches(c.before, LeftBy(i))) <= 1
            /\ Retried(c) =>
                   /\ c.afterFirst = c.before
                   /\ c.feedAfterFirst = c.feedBefore
                   /\ ChangedBranches(c.before, LeftBy(i)) \subseteq {FALLBACK_MCP_BRANCH}

\* A tool call was retried on "main" and its second internal call acquired
\* a lock there.
C40_Witness ==
    \E i \in DOMAIN inflight :
        /\ inflight[i].pc = "done"
        /\ Retried(inflight[i])
        /\ inflight[i].args.status = "WRITING"
        /\ ChangedBranches(inflight[i].before, LeftBy(i)) = {FALLBACK_MCP_BRANCH}

====
